---- MODULE Spec2Model ----
(***************************************************************************)
(* CryptoDashboard: the data-access functions (HTTP fetch, JSON reshape,   *)
(* error handling), the st.cache_data result cache in front of them, and   *)
(* the session-scoped portfolio of the Portfolio Management page.          *)
(*                                                                         *)
(* A JSON scalar is a cell [k, n]: k = "num" carries the number n, "null"  *)
(* is JSON null / NaN, "str" is a string no number can be parsed from.     *)
(* A provider response is [status, body]: status 0 stands for a transport  *)
(* failure raised by requests.get, any other status is the HTTP status.    *)
(* Python exceptions are named by class; IsA is the subclass relation the  *)
(* except clauses test.                                                    *)
(***************************************************************************)
EXTENDS Integers, Sequences, FiniteSets, TLC

VARIABLES
    fn,         \* the cached function whose cache this behaviour exercises
    cache,      \* st.cache_data store of fn: argument tuple -> entry
    now,        \* wall clock, seconds
    netCalls,   \* requests.get calls issued so far
    last,       \* what the latest invocation did and gave back
    given,      \* a direct call under test: function arguments and response
    got,        \* the outcome of the direct call
    portfolio,  \* st.session_state.portfolio of each session
    shown,      \* the message the portfolio page showed last, per session
    threads     \* each session's script thread inside a cached call

vars == <<fn, cache, now, netCalls, last, given, got, portfolio, shown, threads>>

-----------------------------------------------------------------------------
(* Bounds of the model.                                                    *)
MaxPrices == 2      \* price points in a market_chart payload
MaxVolumes == 2     \* volume points in a market_chart payload
MaxCandles == 2     \* candles in an ohlc payload
MaxIds == 2         \* items in the coin_ids list of a price lookup

Stamps == {1, 2}    \* millisecond timestamps a payload may carry

Sessions == {"s1", "s2"}    \* browser sessions served by the one process

-----------------------------------------------------------------------------
(* JSON cells, values, notifications, outcomes.                            *)
Num(n) == [k |-> "num", n |-> n]
Null == [k |-> "null", n |-> 0]
Str == [k |-> "str", n |-> 0]
NoCol == [k |-> "nocol", n |-> 0]      \* the frame has no such column

IsNumeric(c) == c.k = "num"

Frame(cols, rows) == [t |-> "frame", cols |-> cols, rows |-> rows]
Mapping(rows) == [t |-> "dict", cols |-> <<>>, rows |-> rows]
None == [t |-> "none", cols |-> <<>>, rows |-> <<>>]

Warning(about) == [level |-> "warning", about |-> about]
Error(about) == [level |-> "error", about |-> about]

Return(val, notes) == [kind |-> "return", exc |-> "", val |-> val, notes |-> notes]
Raise(exc, notes) == [kind |-> "raise", exc |-> exc, val |-> None, notes |-> notes]

(* Class hierarchy of the exceptions the fetch functions can meet:         *)
(* requests.exceptions.JSONDecodeError derives from RequestException and   *)
(* from ValueError; UnboundLocalError from NameError.                      *)
Bases(exc) ==
    CASE exc = "ConnectionError" -> {"ConnectionError", "RequestException", "Exception"}
      [] exc = "HTTPError" -> {"HTTPError", "RequestException", "Exception"}
      [] exc = "JSONDecodeError" ->
            {"JSONDecodeError", "RequestException", "ValueError", "Exception"}
      [] OTHER -> {exc, "Exception"}

IsA(exc, cls) == cls \in Bases(exc)

(* requests.get(url); response.raise_for_status(); data = response.json(): *)
(* the exception these three lines raise, "" when data is bound.           *)
HttpJson(resp) ==
    IF resp.status = 0 THEN "ConnectionError"
    ELSE IF resp.status >= 400 THEN "HTTPError"
    ELSE IF resp.body.top = "nonjson" THEN "JSONDecodeError"
    ELSE ""

-----------------------------------------------------------------------------
(* Frame helpers (pandas).                                                 *)

(* sort_values(by='date'): rows ordered by timestamp, ties in input order. *)
RECURSIVE InsertByDate(_, _)
InsertByDate(row, sorted) ==
    IF sorted = <<>> THEN <<row>>
    ELSE IF row.ts < Head(sorted).ts THEN <<row>> \o sorted
    ELSE <<Head(sorted)>> \o InsertByDate(row, Tail(sorted))

RECURSIVE SortByDate(_)
SortByDate(rows) ==
    IF rows = <<>> THEN <<>>
    ELSE InsertByDate(rows[Len(rows)], SortByDate(SubSeq(rows, 1, Len(rows) - 1)))

(* drop_duplicates(subset=['date']): the first row of each timestamp.      *)
RECURSIVE DropDuplicatesFrom(_, _)
DropDuplicatesFrom(rows, seen) ==
    IF rows = <<>> THEN <<>>
    ELSE IF Head(rows).ts \in seen THEN DropDuplicatesFrom(Tail(rows), seen)
    ELSE <<Head(rows)>> \o DropDuplicatesFrom(Tail(rows), seen \cup {Head(rows).ts})

DropDuplicates(rows) == DropDuplicatesFrom(rows, {})

(* pd.to_numeric(errors='coerce') and fillna(0) on one cell.               *)
ToNumeric(c) == IF c.k = "num" THEN c ELSE Null
FillNa(c, n) == IF c.k = "null" THEN Num(n) ELSE c

(* pd.merge(prices, volumes, on="timestamp", how="inner"): every pair of a *)
(* price point and a volume point of the same timestamp, in the order of   *)
(* the price points.                                                       *)
RECURSIVE MatchesOf(_, _)
MatchesOf(p, volumes) ==
    IF volumes = <<>> THEN <<>>
    ELSE (IF Head(volumes).ts = p.ts
          THEN <<[ts |-> p.ts, price |-> p.v, volume |-> Head(volumes).v]>>
          ELSE <<>>) \o MatchesOf(p, Tail(volumes))

RECURSIVE InnerMerge(_, _)
InnerMerge(prices, volumes) ==
    IF prices = <<>> THEN <<>>
    ELSE MatchesOf(Head(prices), volumes) \o InnerMerge(Tail(prices), volumes)

MapRows(rows, F(_)) == [i \in 1..Len(rows) |-> F(rows[i])]

-----------------------------------------------------------------------------
(* Historical series: utils.get_historical_data and the page-local copies. *)
(* A market_chart body is [top, keys, prices, volumes, cols]: keys are the *)
(* top-level keys present, prices and volumes the point lists (each point  *)
(* [ts, v]), cols the number of elements of every point.                   *)
MarketChartColumns == <<"date", "price", "volume">>

(* Lines 102-105 of utils.py: to_numeric on both columns, dropna on the    *)
(* price, fillna(0) on the volume.                                         *)
CleanRows_DropAnyNaN(merged) ==
    SelectSeq(MapRows(merged, LAMBDA r : [ts |-> r.ts, price |-> ToNumeric(r.price),
                                          volume |-> ToNumeric(r.volume)]),
              LAMBDA r : r.price.k # "null" /\ r.volume.k # "null")

CleanRows(merged) ==
    LET numeric == MapRows(merged, LAMBDA r : [ts |-> r.ts,
                                               price |-> ToNumeric(r.price),
                                               volume |-> ToNumeric(r.volume)])
        priced == SelectSeq(numeric, LAMBDA r : r.price.k # "null")
    IN MapRows(priced, LAMBDA r : [ts |-> r.ts, price |-> r.price,
                                   volume |-> FillNa(r.volume, 0)])

(* Lines 84-110 of utils.py: the try body once data is bound.              *)
HistoricalFrame(data) ==
    IF data.top # "dict" THEN [exc |-> "AttributeError", val |-> None]
    ELSE IF data.cols # Len(<<"timestamp", "price">>) /\ data.prices \o data.volumes # <<>>
    THEN [exc |-> "ValueError", val |-> None]
    ELSE LET prices == data.prices
             volumes == data.volumes
             merged == IF prices # <<>> /\ volumes # <<>>
                       THEN InnerMerge(prices, volumes)
                       ELSE MapRows(prices, LAMBDA p : [ts |-> p.ts, price |-> p.v,
                                                        volume |-> Num(0)])
         IN IF prices = <<>> THEN [exc |-> "", val |-> Frame(MarketChartColumns, <<>>)]
            ELSE [exc |-> "",
                  val |-> Frame(MarketChartColumns,
                                DropDuplicates(SortByDate(CleanRows(merged))))]

get_historical_data(args, resp) ==
    LET coin_id == args[1].s
        exc == HttpJson(resp)
        body == IF exc = "" THEN HistoricalFrame(resp.body) ELSE [exc |-> exc, val |-> None]
        empty == Frame(MarketChartColumns, <<>>)
    IN IF body.exc = "" THEN Return(body.val, <<>>)
       ELSE IF IsA(body.exc, "HTTPError")
       THEN Return(empty, IF resp.status = 401 THEN <<Error("")>> ELSE <<Warning(coin_id)>>)
       ELSE IF IsA(body.exc, "RequestException") THEN Return(empty, <<Warning(coin_id)>>)
       ELSE IF \E cls \in {"KeyError", "TypeError", "ValueError"} : IsA(body.exc, cls)
       THEN Return(empty, <<Warning(coin_id)>>)
       ELSE Raise(body.exc, <<>>)

(* pages/3 Coin Detail, lines 57-95: always an inner merge, duplicates     *)
(* dropped before the sort, no numeric clean-up.                           *)
CoinDetailHistoricalFrame(data) ==
    IF data.top # "dict" THEN [exc |-> "AttributeError", val |-> None]
    ELSE IF data.cols # Len(<<"timestamp", "price">>) /\ data.prices \o data.volumes # <<>>
    THEN [exc |-> "ValueError", val |-> None]
    ELSE [exc |-> "",
          val |-> Frame(MarketChartColumns,
                        SortByDate(DropDuplicates(InnerMerge(data.prices, data.volumes))))]

CoinDetail_get_historical_data(args, resp) ==
    LET exc == HttpJson(resp)
        body == IF exc = "" THEN CoinDetailHistoricalFrame(resp.body)
                ELSE [exc |-> exc, val |-> None]
        empty == Frame(MarketChartColumns, <<>>)
    IN IF body.exc = "" THEN Return(body.val, <<>>)
       ELSE IF IsA(body.exc, "HTTPError")
       THEN Return(empty, IF resp.status = 401 THEN <<Error("")>> ELSE <<Warning("")>>)
       ELSE IF IsA(body.exc, "RequestException") THEN Return(empty, <<Warning("")>>)
       ELSE IF IsA(body.exc, "KeyError") THEN Return(empty, <<Warning("")>>)
       ELSE Raise(body.exc, <<>>)

(* pages/4 Time Series Analysis, lines 44-76: data["prices"] as received,  *)
(* indexed by date, price column only.                                     *)
TimeSeriesHistoricalFrame(data) ==
    IF data.top # "dict" THEN [exc |-> "TypeError", val |-> None]
    ELSE IF "prices" \notin data.keys THEN [exc |-> "KeyError", val |-> None]
    ELSE IF data.cols # Len(<<"timestamp", "price">>) /\ data.prices # <<>>
    THEN [exc |-> "ValueError", val |-> None]
    ELSE [exc |-> "",
          val |-> Frame(<<"price">>,
                        MapRows(data.prices, LAMBDA p : [ts |-> p.ts, price |-> p.v,
                                                         volume |-> NoCol]))]

TimeSeries_get_historical_data(args, resp) ==
    LET exc == HttpJson(resp)
        body == IF exc = "" THEN TimeSeriesHistoricalFrame(resp.body)
                ELSE [exc |-> exc, val |-> None]
        empty == Frame(<<"price">>, <<>>)
    IN IF body.exc = "" THEN Return(body.val, <<>>)
       ELSE IF IsA(body.exc, "HTTPError")
       THEN Return(empty, IF resp.status = 401 THEN <<Error("")>> ELSE <<Warning("")>>)
       ELSE IF IsA(body.exc, "RequestException") THEN Return(empty, <<Warning("")>>)
       ELSE IF IsA(body.exc, "KeyError") THEN Return(empty, <<Warning("")>>)
       ELSE Raise(body.exc, <<>>)

-----------------------------------------------------------------------------
(* OHLC series: utils.get_ohlc_data and the Coin Detail copy. An ohlc body *)
(* is [top, rows, cols]: rows are the candles [stamp, open, high, low,     *)
(* close] (cells; the timestamp a number or null), cols the number of      *)
(* elements of every candle.                                               *)
OhlcColumns == <<"date", "open", "high", "low", "close", "timestamp">>
CoinDetailOhlcDefaultColumns == <<"timestamp", "date", "open", "high", "low", "close">>
CoinDetailOhlcColumns == <<"timestamp", "open", "high", "low", "close", "date">>

CandleToNumeric(r) ==
    [stamp |-> r.stamp, open |-> ToNumeric(r.open), high |-> ToNumeric(r.high),
     low |-> ToNumeric(r.low), close |-> ToNumeric(r.close)]

(* pd.DataFrame(data, columns=[five names]) for the body kinds modelled.   *)
OhlcDataFrame(data) ==
    IF data.top \in {"str", "num"} THEN [exc |-> "ValueError", rows |-> <<>>]
    ELSE IF data.top = "null" THEN [exc |-> "", rows |-> <<>>]
    ELSE IF data.rows # <<>> /\ data.cols # Len(<<"timestamp", "open", "high", "low", "close">>)
    THEN [exc |-> "ValueError", rows |-> <<>>]
    ELSE [exc |-> "", rows |-> data.rows]

(* utils.py line 192: dropna(subset=['open', 'high', 'low', 'close']).     *)
DropNaOhlc(rows) ==
    SelectSeq(rows, LAMBDA r : \A c \in {r.open, r.high, r.low, r.close} : c.k # "null")

get_ohlc_data(args, resp) ==
    LET coin_id == args[1].s
        exc == HttpJson(resp)
        df == IF exc = "" THEN OhlcDataFrame(resp.body) ELSE [exc |-> exc, rows |-> <<>>]
        empty == Frame(OhlcColumns, <<>>)
    IN IF df.exc = ""
       THEN Return(Frame(OhlcColumns, DropNaOhlc(MapRows(df.rows, CandleToNumeric))), <<>>)
       ELSE IF IsA(df.exc, "HTTPError")
       THEN Return(empty, IF resp.status = 401 THEN <<Error("")>> ELSE <<Warning(coin_id)>>)
       ELSE IF IsA(df.exc, "RequestException") THEN Return(empty, <<Warning(coin_id)>>)
       ELSE Return(empty, <<Error(coin_id)>>)

(* pages/3 Coin Detail, lines 98-129: dropna() over every column, the date *)
(* (NaT for a null timestamp) included.                                    *)
CoinDetailDropNa(rows) ==
    SelectSeq(rows, LAMBDA r : \A c \in {r.stamp, r.open, r.high, r.low, r.close} :
                                    c.k # "null")

CoinDetail_get_ohlc_data(args, resp) ==
    LET exc == HttpJson(resp)
        df == IF exc = "" THEN OhlcDataFrame(resp.body) ELSE [exc |-> exc, rows |-> <<>>]
        empty == Frame(CoinDetailOhlcDefaultColumns, <<>>)
    IN IF df.exc = ""
       THEN Return(Frame(CoinDetailOhlcColumns,
                         CoinDetailDropNa(MapRows(df.rows, CandleToNumeric))), <<>>)
       ELSE IF IsA(df.exc, "HTTPError")
       THEN Return(empty, IF resp.status = 401 THEN <<Error("")>> ELSE <<Warning("")>>)
       ELSE IF IsA(df.exc, "RequestException") THEN Return(empty, <<Warning("")>>)
       ELSE Return(empty, <<Error("")>>)

-----------------------------------------------------------------------------
(* Current prices: utils.get_current_prices and the Portfolio page copy.   *)
(* coin_ids is a list of items [ty, s]: ty the Python type ("str", "int",  *)
(* "none"), s what str() gives. A simple/price body is [top, quotes]:      *)
(* quotes maps an id to [q, has, price]: q = "dict" for an object (has:    *)
(* the currency key is present, price its value), "scalar" for any other   *)
(* JSON value; an id outside the domain is absent from the payload.        *)
IsBlank(str) == str \in {"", " "}

(* The dict after prices[key] = price, keys in first-insertion order.      *)
DictSet(rows, key, price) ==
    IF \E i \in 1..Len(rows) : rows[i].id = key
    THEN [i \in 1..Len(rows) |-> IF rows[i].id = key THEN [id |-> key, price |-> price]
                                 ELSE rows[i]]
    ELSE Append(rows, [id |-> key, price |-> price])

(* data.get(coin_id, {}).get(currency) *)
Quote(data, coin_id) ==
    IF coin_id \notin DOMAIN data.quotes THEN [exc |-> "", price |-> Null]
    ELSE LET e == data.quotes[coin_id]
         IN IF e.q # "dict" THEN [exc |-> "AttributeError", price |-> Null]
            ELSE [exc |-> "", price |-> IF e.has THEN e.price ELSE Null]

(* utils.py lines 288-292: the loop over valid_coin_ids; acc is [rows,     *)
(* notes, exc], the loop stops at the first exception.                     *)
RECURSIVE PriceLoop(_, _, _)
PriceLoop(data, ids, acc) ==
    IF ids = <<>> \/ acc.exc # "" THEN acc
    ELSE LET coin_id == Head(ids)
             q == Quote(data, coin_id)
         IN IF q.exc # "" THEN [acc EXCEPT !.exc = q.exc]
            ELSE PriceLoop(data, Tail(ids),
                           [rows |-> DictSet(acc.rows, coin_id, q.price),
                            notes |-> IF q.price.k = "null"
                                      THEN Append(acc.notes, Warning(coin_id))
                                      ELSE acc.notes,
                            exc |-> ""])

(* pages/8 lines 51-52: the same loop without the per-id warning.          *)
RECURSIVE PortfolioPriceLoop(_, _, _)
PortfolioPriceLoop(data, ids, acc) ==
    IF ids = <<>> \/ acc.exc # "" THEN acc
    ELSE LET coin_id == Head(ids)
             q == Quote(data, coin_id)
         IN IF q.exc # "" THEN [acc EXCEPT !.exc = q.exc]
            ELSE PortfolioPriceLoop(data, Tail(ids),
                                    [rows |-> DictSet(acc.rows, coin_id, q.price),
                                     notes |-> acc.notes, exc |-> ""])

IdsOf(items) == [i \in 1..Len(items) |-> items[i].s]

valid_coin_ids_KeepBlank(coin_ids) ==
    IdsOf(SelectSeq(coin_ids, LAMBDA id : id.ty \in {"str", "int"}))

(* utils.py line 274: [str(id) for id in coin_ids if isinstance(id, (str,  *)
(* int)) and str(id).strip()].                                             *)
valid_coin_ids(coin_ids) ==
    IdsOf(SelectSeq(coin_ids, LAMBDA id : id.ty \in {"str", "int"} /\ ~IsBlank(id.s)))

(* The requests.get calls of one run of utils.get_current_prices, each as  *)
(* the ids of its URL (lines 270-284): none after an early return.         *)
PricesSent(args) ==
    IF args[1].items = <<>> \/ valid_coin_ids(args[1].items) = <<>> THEN <<>>
    ELSE <<valid_coin_ids(args[1].items)>>

(* The same for the copy of pages/8 (lines 39-47), which joins coin_ids    *)
(* as they are.                                                            *)
PortfolioPricesSent(args) ==
    IF args[1].items = <<>> THEN <<>>
    ELSE IF \E i \in 1..Len(args[1].items) : args[1].items[i].ty # "str" THEN <<>>
    ELSE <<IdsOf(args[1].items)>>

get_current_prices(args, resp) ==
    LET coin_ids == args[1].items
        exc == HttpJson(resp)
        start == [rows |-> <<>>, notes |-> <<>>, exc |-> ""]
        loop == IF exc # "" THEN [start EXCEPT !.exc = exc]
                ELSE IF resp.body.top # "dict" THEN [start EXCEPT !.exc = "AttributeError"]
                ELSE PriceLoop(resp.body, valid_coin_ids(coin_ids), start)
    IN IF coin_ids = <<>> THEN Return(Mapping(<<>>), <<>>)
       ELSE IF valid_coin_ids(coin_ids) = <<>> THEN Return(Mapping(<<>>), <<Warning("")>>)
       ELSE IF loop.exc = "" THEN Return(Mapping(loop.rows), loop.notes)
       ELSE IF IsA(loop.exc, "HTTPError")
       THEN \* line 300 reads data, which raise_for_status left unbound
            Raise("UnboundLocalError", Append(loop.notes, Warning("")))
       ELSE IF IsA(loop.exc, "RequestException")
       THEN Return(Mapping(loop.rows), Append(loop.notes, Warning("")))
       ELSE Return(Mapping(loop.rows), Append(loop.notes, Error("")))

Portfolio_get_current_prices(args, resp) ==
    LET coin_ids == args[1].items
        exc == HttpJson(resp)
        start == [rows |-> <<>>, notes |-> <<>>, exc |-> ""]
        loop == IF exc # "" THEN [start EXCEPT !.exc = exc]
                ELSE IF resp.body.top # "dict" THEN [start EXCEPT !.exc = "AttributeError"]
                ELSE PortfolioPriceLoop(resp.body, IdsOf(coin_ids), start)
    IN IF coin_ids = <<>> THEN Return(Mapping(<<>>), <<>>)
       ELSE IF \E i \in 1..Len(coin_ids) : coin_ids[i].ty # "str"
       THEN Raise("TypeError", <<>>)      \* ",".join(coin_ids), outside the try
       ELSE IF loop.exc = "" THEN Return(Mapping(loop.rows), loop.notes)
       ELSE IF IsA(loop.exc, "HTTPError")
       THEN Return(Mapping(loop.rows), Append(loop.notes, Warning("")))
       ELSE IF IsA(loop.exc, "RequestException")
       THEN Return(Mapping(loop.rows), Append(loop.notes, Warning("")))
       ELSE Return(Mapping(loop.rows), Append(loop.notes, Error("")))

-----------------------------------------------------------------------------
(* The other utils.py fetch functions. Their bodies are [top, coins] (a    *)
(* JSON list of coin objects, each with the set of keys it has) or, for    *)
(* the global and details endpoints, [top, keys, content].                 *)
Json(content) == [t |-> "json", cols |-> <<>>, rows |-> <<[content |-> content]>>]

(* {coin['name'].lower(): coin['id'] for coin in data}, lines 18-20; the   *)
(* payload names of the model are lower-case already.                      *)
RECURSIVE CoinMapOf(_, _)
CoinMapOf(coins, rows) ==
    IF coins = <<>> THEN rows
    ELSE LET c == Head(coins)
             next == IF \A i \in 1..Len(rows) : rows[i].name # c.name
                     THEN Append(rows, [name |-> c.name, id |-> c.id])
                     ELSE [i \in 1..Len(rows) |->
                             IF rows[i].name = c.name THEN [name |-> c.name, id |-> c.id]
                             ELSE rows[i]]
         IN CoinMapOf(Tail(coins), next)

CoinListBody(data) ==
    IF data.top # "list" THEN [exc |-> "TypeError", val |-> None]
    ELSE IF \E i \in 1..Len(data.coins) : ~({"name", "id"} \subseteq data.coins[i].keys)
    THEN [exc |-> "KeyError", val |-> None]
    ELSE [exc |-> "", val |-> Mapping(CoinMapOf(data.coins, <<>>))]

get_coin_list(args, resp) ==
    LET exc == HttpJson(resp)
        body == IF exc = "" THEN CoinListBody(resp.body) ELSE [exc |-> exc, val |-> None]
    IN IF body.exc = "" THEN Return(body.val, <<>>)
       ELSE IF IsA(body.exc, "HTTPError")
       THEN Return(Mapping(<<>>), IF resp.status = 429 THEN <<Warning("")>> ELSE <<Error("")>>)
       ELSE IF IsA(body.exc, "RequestException") THEN Return(Mapping(<<>>), <<Error("")>>)
       ELSE Return(Mapping(<<>>), <<Error("")>>)

(* get_top_coins, lines 35-70. A market row is [keys, rank, spark]: keys    *)
(* the keys the object has, rank its market_cap_rank cell, spark what its  *)
(* sparkline_in_7d holds ("prices": an object with a price list,           *)
(* "noprice": an object without one, "null": anything else).               *)
TopCoinsRequired ==
    {"id", "name", "symbol", "current_price", "price_change_percentage_24h", "market_cap",
     "total_volume", "market_cap_rank", "sparkline_in_7d"}

TopCoinsColumns == <<"required_cols", "sparkline_7d_prices">>

(* pd.DataFrame(data), line 43: the columns are the keys any row has.      *)
TopCoinsFrameColumns(coins) == UNION {coins[i].keys : i \in 1..Len(coins)}

(* One cell: the payload's value, NaN where only other rows have the key,  *)
(* and what lines 47-52 put in a column no row has.                        *)
TopCoinsCell(c, col, columns) ==
    IF col \in c.keys THEN "value"
    ELSE IF col \in columns THEN "NaN"
    ELSE IF col = "sparkline_in_7d" THEN "None"
    ELSE "NA"

TopCoinsRow_NoFill(c, columns) ==
    [cells |-> [col \in columns |-> TopCoinsCell(c, col, columns)],
     rank |-> IF "market_cap_rank" \in c.keys THEN c.rank ELSE Null,
     sparkline_7d_prices |->
        IF "sparkline_in_7d" \in c.keys /\ c.spark = "prices" THEN "prices" ELSE "None"]

TopCoinsRow(c, columns) ==
    [cells |-> [col \in columns \cup TopCoinsRequired |-> TopCoinsCell(c, col, columns)],
     rank |-> IF "market_cap_rank" \in c.keys THEN c.rank ELSE Null,
     sparkline_7d_prices |->
        IF "sparkline_in_7d" \in c.keys /\ c.spark = "prices" THEN "prices" ELSE "None"]

TopCoinsBody(data) ==
    IF data.top \in {"dict", "str", "num"} THEN [exc |-> "ValueError", val |-> None]
    ELSE IF data.top = "null" THEN [exc |-> "", val |-> Frame(TopCoinsColumns, <<>>)]
    ELSE [exc |-> "",
          val |-> Frame(TopCoinsColumns,
                        MapRows(data.coins,
                                LAMBDA c : TopCoinsRow(c, TopCoinsFrameColumns(data.coins))))]

get_top_coins(args, resp) ==
    LET exc == HttpJson(resp)
        body == IF exc = "" THEN TopCoinsBody(resp.body) ELSE [exc |-> exc, val |-> None]
        empty == Frame(<<>>, <<>>)
    IN IF body.exc = "" THEN Return(body.val, <<>>)
       ELSE IF IsA(body.exc, "HTTPError")
       THEN Return(empty, IF resp.status = 429 THEN <<Warning("")>> ELSE <<Error("")>>)
       ELSE IF IsA(body.exc, "RequestException") THEN Return(empty, <<Error("")>>)
       ELSE Return(empty, <<Error("")>>)

(* get_global_market_data, lines 131-151: data['data'].                    *)
GlobalBody(data) ==
    IF data.top # "dict" THEN [exc |-> "TypeError", val |-> None]
    ELSE IF "data" \notin data.keys THEN [exc |-> "KeyError", val |-> None]
    ELSE [exc |-> "", val |-> IF data.content = "null" THEN None ELSE Json(data.content)]

get_global_market_data(args, resp) ==
    LET exc == HttpJson(resp)
        body == IF exc = "" THEN GlobalBody(resp.body) ELSE [exc |-> exc, val |-> None]
    IN IF body.exc = "" THEN Return(body.val, <<>>)
       ELSE IF IsA(body.exc, "HTTPError") THEN Return(None, <<Warning("")>>)
       ELSE IF IsA(body.exc, "RequestException") THEN Return(None, <<Error("")>>)
       ELSE IF IsA(body.exc, "KeyError") THEN Return(None, <<Error("")>>)
       ELSE Raise(body.exc, <<>>)

(* pages/2 Global Market, lines 12-25: one handler for every              *)
(* RequestException, one for KeyError.                                     *)
GlobalMarket_get_global_market_data(args, resp) ==
    LET exc == HttpJson(resp)
        body == IF exc = "" THEN GlobalBody(resp.body) ELSE [exc |-> exc, val |-> None]
    IN IF body.exc = "" THEN Return(body.val, <<>>)
       ELSE IF IsA(body.exc, "RequestException") THEN Return(None, <<Error("")>>)
       ELSE IF IsA(body.exc, "KeyError") THEN Return(None, <<Error("")>>)
       ELSE Raise(body.exc, <<>>)

(* get_coin_details, lines 154-176: response.json() as it is.              *)
get_coin_details(args, resp) ==
    LET coin_id == args[1].s
        exc == HttpJson(resp)
    IN IF exc = "" THEN Return(Json(resp.body.content), <<>>)
       ELSE Return(None, <<Error(coin_id)>>)

(* get_market_data_for_gainers_losers, lines 215-265. A market row is      *)
(* [isdict, keys, change, price, volume].                                  *)
GainersRequired ==
    {"name", "symbol", "current_price", "price_change_percentage_24h", "total_volume"}

GainersColumns == <<"name", "symbol", "price", "change_24h", "total_volume">>

GainersRow(c) ==
    [change |-> ToNumeric(c.change), price |-> ToNumeric(c.price),
     volume |-> ToNumeric(c.volume)]

get_market_data_for_gainers_losers(args, resp) ==
    LET exc == HttpJson(resp)
        data == resp.body
        filtered_data == SelectSeq(data.coins,
                                   LAMBDA d : d.isdict /\ GainersRequired \subseteq d.keys)
        df == SelectSeq(MapRows(filtered_data, GainersRow),
                        LAMBDA r : r.change.k # "null" /\ r.price.k # "null")
        empty == Frame(<<>>, <<>>)
    IN IF exc # "" /\ IsA(exc, "HTTPError") THEN Return(empty, <<Warning("")>>)
       ELSE IF exc # "" THEN Return(empty, <<Error("")>>)
       ELSE IF data.top # "list" THEN Return(empty, <<Error("")>>)
       ELSE IF filtered_data = <<>> THEN Return(empty, <<Warning("")>>)
       ELSE Return(Frame(GainersColumns, df), <<>>)

-----------------------------------------------------------------------------
(* Calls and responses the specifications enumerate.                       *)
Arg(s, ty) == [ty |-> ty, s |-> s, items |-> <<>>]

SeqsUpTo(S, n) == UNION {[1..m -> S] : m \in 0..n}

PriceCells == {Num(1), Num(2), Null, Str}
VolumeCells == {Num(5), Null, Str}

PricePoints == {[ts |-> ts, v |-> v] : ts \in Stamps, v \in PriceCells}
VolumePoints == {[ts |-> ts, v |-> v] : ts \in Stamps, v \in VolumeCells}

MarketChart(keys, prices, volumes) ==
    [top |-> "dict", keys |-> keys, prices |-> prices, volumes |-> volumes, cols |-> 2]

MarketCharts ==
    {MarketChart(keys, p, v) :
        keys \in SUBSET {"prices", "total_volumes"},
        p \in SeqsUpTo(PricePoints, MaxPrices),
        v \in SeqsUpTo(VolumePoints, MaxVolumes)}

WellKeyed(body) ==
    /\ body.prices # <<>> => "prices" \in body.keys
    /\ body.volumes # <<>> => "total_volumes" \in body.keys

(* Bodies that are no market chart: not JSON, another top-level type, or   *)
(* points of three elements.                                               *)
OddMarketCharts ==
    {[top |-> top, keys |-> {}, prices |-> <<>>, volumes |-> <<>>, cols |-> 2] :
        top \in {"nonjson", "list", "null", "str", "num"}}
    \cup {[top |-> "dict", keys |-> {"prices"},
           prices |-> <<[ts |-> 1, v |-> Num(1)]>>, volumes |-> <<>>, cols |-> 3]}

FailedStatuses == {0, 401, 404, 429, 500}

HistoricalArgs == <<Arg("bitcoin", "str"), Arg("usd", "str"), Arg("90", "int")>>

HistoricalResponses ==
    {[status |-> 200, body |-> b] : b \in {m \in MarketCharts : WellKeyed(m)}}
    \cup {[status |-> 200, body |-> b] : b \in OddMarketCharts}
    \cup {[status |-> st, body |-> MarketChart({}, <<>>, <<>>)] : st \in FailedStatuses}

Pending == [by |-> "", out |-> [kind |-> "none", exc |-> "", val |-> None, notes |-> <<>>]]

NoCall == [args |-> <<>>, resp |-> [status |-> 0, body |-> MarketChart({}, <<>>, <<>>)]]

(* What the variables a specification does not use stay at.                *)
CacheIdle ==
    /\ fn = ""
    /\ cache = <<>>
    /\ now = 0
    /\ netCalls = 0
    /\ last = Pending
    /\ threads = <<>>

DirectIdle == given = NoCall /\ got = Pending

PortfolioIdle == portfolio = <<>> /\ shown = <<>>

-----------------------------------------------------------------------------
(* SpecHistorical: one call of a historical-series fetch on one response.  *)
InitHistorical ==
    /\ given \in {[args |-> HistoricalArgs, resp |-> r] : r \in HistoricalResponses}
    /\ got = Pending
    /\ CacheIdle
    /\ PortfolioIdle

CallHistorical ==
    /\ got = Pending
    /\ got' = [by |-> "utils", out |-> get_historical_data(given.args, given.resp)]
    /\ UNCHANGED <<fn, cache, now, netCalls, last, given, portfolio, shown, threads>>

CallCoinDetailHistorical ==
    /\ got = Pending
    /\ got' = [by |-> "coin_detail",
               out |-> CoinDetail_get_historical_data(given.args, given.resp)]
    /\ UNCHANGED <<fn, cache, now, netCalls, last, given, portfolio, shown, threads>>

CallTimeSeriesHistorical ==
    /\ got = Pending
    /\ got' = [by |-> "time_series",
               out |-> TimeSeries_get_historical_data(given.args, given.resp)]
    /\ UNCHANGED <<fn, cache, now, netCalls, last, given, portfolio, shown, threads>>

NextHistorical ==
    \/ CallHistorical
    \/ CallCoinDetailHistorical
    \/ CallTimeSeriesHistorical

SpecHistorical == InitHistorical /\ [][NextHistorical]_vars

-----------------------------------------------------------------------------
(* Claims about the historical series.                                     *)
GotRows == got.out.val.rows

IsChart(resp) == resp.status = 200 /\ resp.body.top = "dict" /\ resp.body.cols = 2

(* C6: for every payload, the series a historical-series fetch returns has *)
(* rows strictly increasing in timestamp, no two rows sharing a timestamp. *)
C6_StrictlyIncreasing ==
    (got.by # "" /\ got.out.kind = "return") =>
        \A i \in 1..(Len(GotRows) - 1) : GotRows[i].ts < GotRows[i + 1].ts

(* C7: a payload with price points (numeric, of distinct timestamps) and   *)
(* no volume points gives one row per price point, each with volume 0.     *)
CleanPrices(prices) ==
    /\ prices # <<>>
    /\ \A i \in 1..Len(prices) : prices[i].v.k = "num"
    /\ \A i, j \in 1..Len(prices) : i # j => prices[i].ts # prices[j].ts

C7_PricesOnlyVolumeZero ==
    (/\ got.by \in {"utils", "coin_detail"}
     /\ IsChart(given.resp)
     /\ given.resp.body.volumes = <<>>
     /\ CleanPrices(given.resp.body.prices)) =>
        /\ got.out.kind = "return"
        /\ Len(GotRows) = Len(given.resp.body.prices)
        /\ \A i \in 1..Len(GotRows) : GotRows[i].volume = Num(0)

(* C10: in utils.get_historical_data a merged row whose price is not       *)
(* numeric is dropped, and a merged row whose price is numeric and whose   *)
(* volume is null or not numeric is kept with volume 0. A merged row is a  *)
(* price point joined with a volume point of its timestamp; rows that      *)
(* share a timestamp are represented by one of them (line 108).            *)
JoinedRows(body) ==
    IF body.volumes = <<>>
    THEN {[ts |-> body.prices[i].ts, price |-> body.prices[i].v, volume |-> Null] :
            i \in 1..Len(body.prices)}
    ELSE
    {[ts |-> p.ts, price |-> p.v, volume |-> v.v] :
        <<p, v>> \in {pv \in {body.prices[i] : i \in 1..Len(body.prices)}
                              \X {body.volumes[j] : j \in 1..Len(body.volumes)} :
                         pv[1].ts = pv[2].ts}}

KeptAs(r) ==
    [ts |-> r.ts, price |-> r.price,
     volume |-> IF r.volume.k = "num" THEN r.volume ELSE Num(0)]

C10_PriceDropsVolumeDefaults ==
    (got.by = "utils" /\ IsChart(given.resp)) =>
        LET rows == JoinedRows(given.resp.body)
            kept == {r \in rows : r.price.k = "num"}
            out == {GotRows[i] : i \in 1..Len(GotRows)}
        IN /\ got.out.kind = "return"
           /\ \A x \in out : \E r \in kept : x = KeptAs(r)
           /\ \A r \in kept : \E x \in out : x.ts = r.ts
           /\ \A r \in kept :
                (\A q \in kept : q.ts = r.ts => q = r) => KeptAs(r) \in out

(* A numeric price joined with a null or non-numeric volume came back with *)
(* volume 0, next to a joined row dropped for its price.                   *)
C10_Witness ==
    /\ got.by = "utils"
    /\ IsChart(given.resp)
    /\ \E r \in JoinedRows(given.resp.body) :
          r.price.k = "num" /\ r.volume.k # "num" /\ KeptAs(r) \in {GotRows[i] : i \in 1..Len(GotRows)}
    /\ \E r \in JoinedRows(given.resp.body) :
          r.price.k # "num" /\ \A i \in 1..Len(GotRows) : GotRows[i].ts # r.ts

-----------------------------------------------------------------------------
(* SpecOhlc: one call of an OHLC fetch on one response.                    *)
OhlcCells == {Num(1), Null, Str}

Candles ==
    [stamp : {Num(1), Null}, open : OhlcCells, high : OhlcCells, low : OhlcCells,
     close : OhlcCells]

OhlcBody(rows) == [top |-> "list", rows |-> rows, cols |-> 5]

OddOhlcBodies ==
    {[top |-> top, rows |-> <<>>, cols |-> 5] : top \in {"nonjson", "null", "str", "num"}}
    \cup {[top |-> "list", cols |-> 4,
           rows |-> <<[stamp |-> Num(1), open |-> Num(1), high |-> Num(1), low |-> Num(1),
                       close |-> Null]>>]}

OhlcArgs == <<Arg("bitcoin", "str"), Arg("usd", "str"), Arg("30", "str")>>

OhlcResponses ==
    {[status |-> 200, body |-> OhlcBody(rows)] : rows \in SeqsUpTo(Candles, MaxCandles)}
    \cup {[status |-> 200, body |-> b] : b \in OddOhlcBodies}
    \cup {[status |-> st, body |-> OhlcBody(<<>>)] : st \in FailedStatuses}

InitOhlc ==
    /\ given \in {[args |-> OhlcArgs, resp |-> r] : r \in OhlcResponses}
    /\ got = Pending
    /\ CacheIdle
    /\ PortfolioIdle

CallOhlc ==
    /\ got = Pending
    /\ got' = [by |-> "utils", out |-> get_ohlc_data(given.args, given.resp)]
    /\ UNCHANGED <<fn, cache, now, netCalls, last, given, portfolio, shown, threads>>

CallCoinDetailOhlc ==
    /\ got = Pending
    /\ got' = [by |-> "coin_detail", out |-> CoinDetail_get_ohlc_data(given.args, given.resp)]
    /\ UNCHANGED <<fn, cache, now, netCalls, last, given, portfolio, shown, threads>>

NextOhlc == CallOhlc \/ CallCoinDetailOhlc

SpecOhlc == InitOhlc /\ [][NextOhlc]_vars

(* C9: the OHLC fetch returns exactly the provider rows whose open, high,  *)
(* low and close are all present and numeric, every other row is dropped.  *)
C9_ExactlyCompleteCandles ==
    (got.by # "" /\ given.resp.status = 200 /\ given.resp.body.top = "list"
       /\ given.resp.body.cols = 5) =>
        /\ got.out.kind = "return"
        /\ GotRows = SelectSeq(given.resp.body.rows,
                               LAMBDA r : /\ r.open.k = "num" /\ r.high.k = "num"
                                          /\ r.low.k = "num" /\ r.close.k = "num")

-----------------------------------------------------------------------------
(* SpecPrices: one current-price lookup on one response.                   *)
CoinIds == {"bitcoin", "not-a-real-id"}

IdItems ==
    {Arg(id, "str") : id \in CoinIds} \cup {Arg(" ", "str"), Arg("7", "int"), Arg("None", "none")}

IdList(items) == [ty |-> "list", s |-> "", items |-> items]

Quotes ==
    {[q |-> "dict", has |-> TRUE, price |-> Num(1)],
     [q |-> "dict", has |-> TRUE, price |-> Null],
     [q |-> "dict", has |-> FALSE, price |-> Null],
     [q |-> "scalar", has |-> FALSE, price |-> Null]}

PriceBodies ==
    {[top |-> "dict", quotes |-> qs] : qs \in UNION {[ids -> Quotes] : ids \in SUBSET CoinIds}}
    \cup {[top |-> top, quotes |-> <<>>] : top \in {"nonjson", "list", "null"}}

PriceResponses ==
    {[status |-> 200, body |-> b] : b \in PriceBodies}
    \cup {[status |-> st, body |-> [top |-> "dict", quotes |-> <<>>]] : st \in FailedStatuses}

PriceCalls ==
    {[args |-> <<IdList(items), Arg("usd", "str")>>, resp |-> r] :
        items \in SeqsUpTo(IdItems, MaxIds), r \in PriceResponses}

InitPrices ==
    /\ given \in PriceCalls
    /\ got = Pending
    /\ CacheIdle
    /\ PortfolioIdle

CallPrices ==
    /\ got = Pending
    /\ got' = [by |-> "utils", out |-> get_current_prices(given.args, given.resp),
               sent |-> PricesSent(given.args)]
    /\ UNCHANGED <<fn, cache, now, netCalls, last, given, portfolio, shown, threads>>

CallPortfolioPrices ==
    /\ got = Pending
    /\ got' = [by |-> "portfolio",
               out |-> Portfolio_get_current_prices(given.args, given.resp),
               sent |-> PortfolioPricesSent(given.args)]
    /\ UNCHANGED <<fn, cache, now, netCalls, last, given, portfolio, shown, threads>>

NextPrices == CallPrices \/ CallPortfolioPrices

SpecPrices == InitPrices /\ [][NextPrices]_vars

(* C8: a batch lookup (distinct, valid ids) answered with a payload that   *)
(* lacks some of the ids returns an entry for every requested id: the      *)
(* provider's price for an id that is present, the absent marker and one   *)
(* warning naming it for an id that is missing.                            *)
Requested == {given.args[1].items[i].s : i \in 1..Len(given.args[1].items)}

WellFormedQuotes(body) ==
    /\ body.top = "dict"
    /\ \A id \in DOMAIN body.quotes :
          body.quotes[id].q = "dict" /\ body.quotes[id].has /\ body.quotes[id].price.k = "num"

C8_MissingIdsReportedOneByOne ==
    (/\ got.by # ""
     /\ given.resp.status = 200
     /\ WellFormedQuotes(given.resp.body)
     /\ given.args[1].items # <<>>
     /\ \A i \in 1..Len(given.args[1].items) :
           /\ given.args[1].items[i].ty = "str" /\ ~IsBlank(given.args[1].items[i].s)
           /\ \A j \in 1..Len(given.args[1].items) :
                 i # j => given.args[1].items[i].s # given.args[1].items[j].s) =>
        /\ got.out.kind = "return"
        /\ {GotRows[i].id : i \in 1..Len(GotRows)} = Requested
        /\ \A i \in 1..Len(GotRows) :
              GotRows[i].price = IF GotRows[i].id \in DOMAIN given.resp.body.quotes
                                 THEN given.resp.body.quotes[GotRows[i].id].price
                                 ELSE Null
        /\ \A id \in Requested :
              Cardinality({n \in 1..Len(got.out.notes) : got.out.notes[n] = Warning(id)})
                = IF id \in DOMAIN given.resp.body.quotes THEN 0 ELSE 1

(* The strings of the items of the call that pass the validation: a       *)
(* string that is not blank, or an integer.                                *)
PassingIds ==
    {given.args[1].items[i].s :
        i \in {j \in 1..Len(given.args[1].items) :
                  /\ given.args[1].items[j].ty \in {"str", "int"}
                  /\ given.args[1].items[j].s \notin {"", " "}}}

(* C28: utils.get_current_prices called with no id, or with no id that     *)
(* passes the validation, makes no request and returns an empty mapping;   *)
(* whatever it is called with, it makes at most one request, every id of   *)
(* the request passed the validation, and so did every key of a mapping    *)
(* it returns.                                                             *)
C28_OnlyValidIdsAreLookedUp ==
    got.by = "utils" =>
        /\ PassingIds = {} =>
              /\ got.sent = <<>>
              /\ got.out.kind = "return"
              /\ got.out.val = Mapping(<<>>)
        /\ Len(got.sent) <= 1
        /\ \A n \in 1..Len(got.sent) : \A i \in 1..Len(got.sent[n]) :
              got.sent[n][i] \in PassingIds
        /\ got.out.kind = "return" =>
              \A i \in 1..Len(GotRows) : GotRows[i].id \in PassingIds

(* A blank id came before a listed one: one request for the listed id      *)
(* alone, and its price alone in the mapping.                              *)
C28_Witness ==
    /\ got.by = "utils"
    /\ Len(given.args[1].items) = 2
    /\ given.args[1].items[1] = Arg(" ", "str")
    /\ got.sent = << <<"bitcoin">> >>
    /\ got.out.kind = "return"
    /\ Len(GotRows) = 1
    /\ GotRows[1] = [id |-> "bitcoin", price |-> Num(1)]

(* Nothing but ids that fail the validation: no request, empty mapping.    *)
C28_WitnessNoRequest ==
    /\ got.by = "utils"
    /\ Len(given.args[1].items) = 2
    /\ PassingIds = {}
    /\ got.sent = <<>>
    /\ got.out.val = Mapping(<<>>)

-----------------------------------------------------------------------------
(* Spec: the st.cache_data cache in front of one utils.py function, the    *)
(* clock and the transport. Each behaviour exercises the cache of one      *)
(* function, fn; the caches of different functions are separate stores.    *)
MaxTicks == 2       \* clock steps of half a TTL
MaxFetches == 2     \* requests.get calls in a behaviour

Functions ==
    {"get_coin_list", "get_top_coins", "get_historical_data", "get_global_market_data",
     "get_coin_details", "get_ohlc_data", "get_market_data_for_gainers_losers",
     "get_current_prices"}

(* The ttl of each @st.cache_data decorator, seconds.                      *)
TTL(f) ==
    CASE f = "get_coin_list" -> 3600 * 6
      [] f = "get_top_coins" -> 600
      [] f = "get_historical_data" -> 7200
      [] f = "get_global_market_data" -> 300
      [] f = "get_coin_details" -> 300
      [] f = "get_ohlc_data" -> 7200
      [] f = "get_market_data_for_gainers_losers" -> 180
      [] f = "get_current_prices" -> 60

(* The function body behind the decorator.                                 *)
Run(f, args, resp) ==
    CASE f = "get_coin_list" -> get_coin_list(args, resp)
      [] f = "get_top_coins" -> get_top_coins(args, resp)
      [] f = "get_historical_data" -> get_historical_data(args, resp)
      [] f = "get_global_market_data" -> get_global_market_data(args, resp)
      [] f = "get_coin_details" -> get_coin_details(args, resp)
      [] f = "get_ohlc_data" -> get_ohlc_data(args, resp)
      [] f = "get_market_data_for_gainers_losers" ->
            get_market_data_for_gainers_losers(args, resp)
      [] f = "get_current_prices" -> get_current_prices(args, resp)

(* requests.get calls one run of the body issues: get_current_prices       *)
(* returns before the request when no id is valid (lines 270-277).         *)
Fetches_RetryOnce(f, args) ==
    IF f = "get_current_prices"
       /\ SelectSeq(args[1].items, LAMBDA id : id.ty \in {"str", "int"} /\ ~IsBlank(id.s)) = <<>>
    THEN 0
    ELSE 2

Fetches(f, args) ==
    IF f = "get_current_prices" THEN Len(PricesSent(args)) ELSE 1

(* An entry is served while its age is below the ttl.                      *)
Fresh_HalfTtl(entry, t, ttl) == t - entry.stored < ttl \div 2

Fresh(entry, t, ttl) == t - entry.stored < ttl

(* The key an entry is stored under: the argument tuple (the function has  *)
(* its own store); the calling session is no part of it.                   *)
Key_PerSession(s, args) == <<s, args>>

Key_IgnoresArgs(s, args) == <<>>

Key(s, args) == args

Store_KeepOld(c, args, entry) ==
    IF args \in DOMAIN c THEN c
    ELSE [a \in DOMAIN c \cup {args} |-> IF a = args THEN entry ELSE c[a]]

(* Writing a key puts the new entry in the place of the one it had.        *)
Store(c, args, entry) == [a \in DOMAIN c \cup {args} |-> IF a = args THEN entry ELSE c[a]]

Evict(c, args) == [a \in DOMAIN c \ {args} |-> c[a]]

(* Argument tuples and provider responses the behaviours draw from.        *)
Responses200(bodies) == {[status |-> 200, body |-> b] : b \in bodies}

FailedResponses(body) == {[status |-> st, body |-> body] : st \in FailedStatuses}

(* A transport failure and a rate-limit answer.                            *)
CachedFailures(body) == {[status |-> st, body |-> body] : st \in {0, 429}}

CoinListBodies ==
    {[top |-> "list", coins |-> cs] :
        cs \in {<<[name |-> "bitcoin", id |-> "bitcoin", keys |-> {"id", "name"}]>>,
                <<[name |-> "bitcoin", id |-> "bitcoin", keys |-> {"id", "name"}],
                  [name |-> "ethereum", id |-> "ethereum", keys |-> {"id", "name"}]>>,
                <<[name |-> "", id |-> "bitcoin", keys |-> {"id"}]>>}}
    \cup {[top |-> top, coins |-> <<>>] : top \in {"nonjson", "dict"}}

TopCoinsBodies ==
    {[top |-> "list", coins |-> cs] :
        cs \in {<<[keys |-> TopCoinsRequired, rank |-> Num(1), spark |-> "prices"]>>,
                <<[keys |-> {"id", "name"}, rank |-> Null, spark |-> "null"]>>}}
    \cup {[top |-> top, coins |-> <<>>] : top \in {"nonjson", "dict", "null"}}

CachedMarketCharts ==
    {MarketChart({"prices", "total_volumes"}, <<[ts |-> 1, v |-> Num(1)]>>,
                 <<[ts |-> 1, v |-> Num(5)]>>),
     MarketChart({"prices"}, <<[ts |-> 1, v |-> Num(2)]>>, <<>>),
     MarketChart({}, <<>>, <<>>)}
    \cup {b \in OddMarketCharts : b.top \in {"nonjson", "list", "dict"}}

GlobalBodies ==
    {[top |-> "dict", keys |-> {"data"}, content |-> "stats"],
     [top |-> "dict", keys |-> {"data"}, content |-> "newer stats"],
     [top |-> "dict", keys |-> {"status"}, content |-> ""]}
    \cup {[top |-> top, keys |-> {}, content |-> ""] : top \in {"nonjson", "list"}}

DetailsBodies ==
    {[top |-> "dict", keys |-> {"id", "market_data"}, content |-> "details"],
     [top |-> "dict", keys |-> {"id", "market_data"}, content |-> "newer details"],
     [top |-> "nonjson", keys |-> {}, content |-> ""]}

CachedOhlcBodies ==
    {OhlcBody(<<[stamp |-> Num(1), open |-> Num(1), high |-> Num(1), low |-> Num(1),
                 close |-> Num(1)]>>),
     OhlcBody(<<[stamp |-> Num(1), open |-> Num(1), high |-> Num(1), low |-> Null,
                 close |-> Num(1)]>>)}
    \cup {b \in OddOhlcBodies : b.top \in {"nonjson", "null", "list"}}

GainersBodies ==
    {[top |-> "list", coins |-> cs] :
        cs \in {<<[isdict |-> TRUE, keys |-> GainersRequired, change |-> Num(1),
                   price |-> Num(1), volume |-> Num(5)]>>,
                <<[isdict |-> TRUE, keys |-> GainersRequired, change |-> Null,
                   price |-> Num(1), volume |-> Num(5)]>>,
                <<[isdict |-> FALSE, keys |-> {}, change |-> Null, price |-> Null,
                   volume |-> Null]>>}}
    \cup {[top |-> top, coins |-> <<>>] : top \in {"nonjson", "dict"}}

CachedPriceBodies ==
    {[top |-> "dict", quotes |-> qs] :
        qs \in {<<>>} \cup [{"bitcoin"} -> {[q |-> "dict", has |-> TRUE, price |-> Num(1)],
                                            [q |-> "dict", has |-> TRUE, price |-> Num(2)]}]}
    \cup {[top |-> top, quotes |-> <<>>] : top \in {"nonjson", "list"}}

Responses(f) ==
    CASE f = "get_coin_list" ->
            Responses200(CoinListBodies)
                \cup CachedFailures([top |-> "nonjson", coins |-> <<>>])
      [] f = "get_top_coins" ->
            Responses200(TopCoinsBodies)
                \cup CachedFailures([top |-> "nonjson", coins |-> <<>>])
      [] f = "get_historical_data" ->
            Responses200(CachedMarketCharts) \cup CachedFailures(MarketChart({}, <<>>, <<>>))
      [] f = "get_global_market_data" ->
            Responses200(GlobalBodies)
                \cup CachedFailures([top |-> "nonjson", keys |-> {}, content |-> ""])
      [] f = "get_coin_details" ->
            Responses200(DetailsBodies)
                \cup CachedFailures([top |-> "nonjson", keys |-> {}, content |-> ""])
      [] f = "get_ohlc_data" -> Responses200(CachedOhlcBodies) \cup CachedFailures(OhlcBody(<<>>))
      [] f = "get_market_data_for_gainers_losers" ->
            Responses200(GainersBodies)
                \cup CachedFailures([top |-> "nonjson", coins |-> <<>>])
      [] f = "get_current_prices" ->
            Responses200(CachedPriceBodies)
                \cup CachedFailures([top |-> "nonjson", quotes |-> <<>>])

ArgsOf(f) ==
    CASE f = "get_coin_list" -> {<<>>}
      [] f = "get_top_coins" ->
            {<<Arg(cur, "str"), Arg("25", "int")>> : cur \in {"usd", "eur"}}
      [] f = "get_historical_data" ->
            {<<Arg("bitcoin", "str"), Arg("usd", "str"), Arg("90", ty)>> : ty \in {"int", "str"}}
      [] f = "get_global_market_data" -> {<<>>}
      [] f = "get_coin_details" -> {<<Arg(id, "str")>> : id \in {"bitcoin", "ethereum"}}
      [] f = "get_ohlc_data" ->
            {<<Arg(id, "str"), Arg("usd", "str"), Arg("30", "str")>> :
                id \in {"bitcoin", "ethereum"}}
      [] f = "get_market_data_for_gainers_losers" ->
            {<<Arg(cur, "str"), Arg("250", "int")>> : cur \in {"usd", "eur"}}
      [] f = "get_current_prices" ->
            {<<IdList(items), Arg("usd", "str")>> :
                items \in {<<Arg("bitcoin", "str")>>, <<Arg(" ", "str")>>}}

NoResponse == [status |-> -1, body |-> [top |-> "none"]]

NoInvocation ==
    [by |-> "", args |-> <<>>, at |-> -1, hit |-> FALSE, net |-> 0, resp |-> NoResponse,
     out |-> Pending.out, prior |-> -1]

Init ==
    /\ fn \in Functions
    /\ cache = <<>>
    /\ now = 0
    /\ netCalls = 0
    /\ last = NoInvocation
    /\ threads = <<>>
    /\ DirectIdle
    /\ PortfolioIdle

(* One call of the decorated function by session s: a fresh entry is       *)
(* served with its recorded notifications replayed; otherwise the body     *)
(* runs, and what it returns is stored. An exception leaves nothing        *)
(* stored.                                                                 *)
Invoke(s, args, resp) ==
    LET k == Key(s, args)
        hit == k \in DOMAIN cache /\ Fresh(cache[k], now, TTL(fn))
        out == IF hit THEN cache[k].out ELSE Run(fn, args, resp)
        net == IF hit THEN 0 ELSE Fetches(fn, args)
    IN /\ netCalls + net <= MaxFetches
       /\ netCalls' = netCalls + net
       /\ cache' = IF hit THEN cache
                   ELSE IF out.kind = "return"
                   THEN Store(cache, k, [args |-> args, by |-> s, stored |-> now,
                                         out |-> out])
                   ELSE Evict(cache, k)
       /\ last' = [by |-> s, args |-> args, at |-> now, hit |-> hit, net |-> net,
                   resp |-> IF net = 0 THEN NoResponse ELSE resp, out |-> out,
                   prior |-> IF k \in DOMAIN cache THEN cache[k].stored ELSE -1]
       /\ UNCHANGED <<fn, now, given, got, portfolio, shown, threads>>

Tick ==
    /\ now < MaxTicks * (TTL(fn) \div 2)
    /\ now' = now + TTL(fn) \div 2
    /\ UNCHANGED <<fn, cache, netCalls, last, given, got, portfolio, shown, threads>>

Next ==
    \/ \E s \in Sessions, args \in ArgsOf(fn), resp \in Responses(fn) : Invoke(s, args, resp)
    \/ Tick

Spec == Init /\ [][Next]_vars

-----------------------------------------------------------------------------
(* Claims about failures and the cache.                                    *)

(* The latest invocation ran the body and the body issued its request.     *)
Fetched == last.at >= 0 /\ ~last.hit /\ last.net = 1

(* An invocation took place in this step.                                  *)
Invoked == <<last, netCalls, cache>>' # <<last, netCalls, cache>>

(* The outcome is a returned value without data: {}, None, an empty frame. *)
DefaultValue(out) == out.kind = "return" /\ out.val.rows = <<>>

ExpectedTop(f) ==
    IF f \in {"get_coin_list", "get_top_coins", "get_ohlc_data",
              "get_market_data_for_gainers_losers"}
    THEN "list"
    ELSE "dict"

(* A 200 body that is not JSON, has another top-level type than the        *)
(* endpoint's, or lacks a key the function reads.                          *)
Malformed(f, body) ==
    \/ body.top = "nonjson"
    \/ f # "get_coin_details" /\ body.top # ExpectedTop(f)
    \/ f = "get_global_market_data" /\ "data" \notin body.keys
    \/ f = "get_coin_list" /\ \E i \in 1..Len(body.coins) :
                                  ~({"name", "id"} \subseteq body.coins[i].keys)
    \/ f = "get_historical_data" /\ (body.cols # 2 \/ "prices" \notin body.keys)
    \/ f = "get_ohlc_data" /\ body.cols # 5

(* C1: a fetch answered with HTTP 429 returns the operation's empty or     *)
(* default value; it does not raise to the caller.                         *)
C1_RateLimitedReturnsDefault ==
    (Fetched /\ last.resp.status = 429) => DefaultValue(last.out)

(* C2: a fetch answered with HTTP 200 and a malformed payload returns the  *)
(* operation's empty or default value; it does not raise to the caller.    *)
C2_MalformedReturnsDefault ==
    (Fetched /\ last.resp.status = 200 /\ Malformed(fn, last.resp.body)) =>
        DefaultValue(last.out)

(* C3: an invocation whose arguments have an entry younger than the ttl    *)
(* issues no request, gives back the stored result, and leaves the cache   *)
(* as it is.                                                               *)
C3_HitWithinTtl ==
    [][\A a \in DOMAIN cache :
          (Invoked /\ last'.args = a /\ now - cache[a].stored < TTL(fn)) =>
              /\ netCalls' = netCalls
              /\ last'.out = cache[a].out
              /\ cache' = cache]_vars

(* The same arguments were invoked again, later and inside the ttl, and    *)
(* the stored rows came back with no further request.                      *)
C3_Witness ==
    /\ last.at >= 0
    /\ last.hit
    /\ netCalls = 1
    /\ last.args \in DOMAIN cache
    /\ last.at > cache[last.args].stored
    /\ last.out = cache[last.args].out
    /\ last.out.val.rows # <<>>

(* C4: after a fetch that failed (HTTP error, transport error, malformed   *)
(* payload), the next invocation with the same arguments inside the ttl    *)
(* is served the stored empty or default value with no request.            *)
C4_FailedFetchIsCached ==
    [][(/\ Fetched
        /\ last.resp.status # 200 \/ Malformed(fn, last.resp.body)
        /\ Invoked
        /\ last'.args = last.args
        /\ now - last.at < TTL(fn)) =>
           /\ last'.hit
           /\ netCalls' = netCalls
           /\ DefaultValue(last'.out)]_vars

(* C19: when the arguments of an invocation have an entry younger than the *)
(* ttl that another session's invocation stored, the invocation issues no  *)
(* request and gives back that entry's result.                             *)
C19_SharedAcrossSessions ==
    [][\A k \in DOMAIN cache :
          (/\ Invoked
           /\ last'.args = cache[k].args
           /\ last'.by # cache[k].by
           /\ now - cache[k].stored < TTL(fn)) =>
              /\ last'.hit
              /\ netCalls' = netCalls
              /\ last'.out = cache[k].out]_vars

(* A session was served rows that the other session's invocation fetched. *)
C19_Witness ==
    /\ last.at >= 0
    /\ last.hit
    /\ \E k \in DOMAIN cache :
          /\ cache[k].args = last.args
          /\ cache[k].by # last.by
          /\ cache[k].out = last.out
    /\ netCalls = 1
    /\ last.out.val.rows # <<>>

(* C23: an invocation whose arguments have no entry, or only an entry as   *)
(* old as the ttl or older, runs the function once, with at most one       *)
(* request; a returned result becomes the one entry of these arguments,    *)
(* stamped with the time of the invocation, and a raised exception leaves  *)
(* no entry. An invocation that is served an entry is served one younger   *)
(* than the ttl.                                                           *)
C23_MissRefetchesAndReplaces ==
    [][Invoked =>
          LET held == {k \in DOMAIN cache : cache[k].args = last'.args}
              fresh == {k \in held : now - cache[k].stored < TTL(fn)}
              after == {k \in DOMAIN cache' : cache'[k].args = last'.args}
          IN /\ fresh = {} =>
                    /\ ~last'.hit
                    /\ last'.net <= 1
                    /\ netCalls' = netCalls + last'.net
                    /\ last'.out.kind = "return" =>
                          /\ Cardinality(after) = 1
                          /\ \A k \in after : /\ cache'[k].out = last'.out
                                               /\ cache'[k].stored = now
                    /\ last'.out.kind = "raise" => after = {}
             /\ last'.hit => \E k \in fresh : last'.out = cache[k].out]_vars

(* An entry stored at time 0 was a ttl old when its arguments were invoked *)
(* again: the function ran, made the second request of the behaviour, and  *)
(* the entry now holds the rows and the time of that invocation.           *)
C23_Witness ==
    /\ last.at = TTL(fn)
    /\ last.prior = 0
    /\ ~last.hit
    /\ last.net = 1
    /\ netCalls = 2
    /\ \E k \in DOMAIN cache :
          /\ cache[k].args = last.args
          /\ cache[k].stored = last.at
          /\ cache[k].out = last.out
    /\ last.out.val.rows # <<>>

(* C14: an invocation issues at most one request, whatever the answer; a   *)
(* failed request (transport failure, HTTP error status, malformed body)   *)
(* is not followed by another one in the same invocation.                  *)
C14_AtMostOneRequest ==
    [][Invoked =>
          /\ netCalls' - netCalls = last'.net
          /\ last'.net <= 1
          /\ last'.hit => last'.net = 0]_vars

(* An invocation was answered with HTTP 429 and the request count stands   *)
(* at one.                                                                 *)
C14_Witness ==
    /\ Fetched
    /\ last.resp.status = 429
    /\ last.net = 1
    /\ netCalls = 1

(* C15: an invocation whose fetch failed and that returns the empty or     *)
(* default value has emitted at least one warning or error.                *)
C15_DefaultComesWithNotification ==
    (/\ Fetched
     /\ last.resp.status # 200 \/ Malformed(fn, last.resp.body)
     /\ DefaultValue(last.out)) =>
        last.out.notes # <<>>

-----------------------------------------------------------------------------
(* SpecPortfolio: the Portfolio Management page. Every session has its own *)
(* st.session_state.portfolio; a form submission or a button click reruns  *)
(* the page script from the top for that session.                          *)
MaxHoldings == 2    \* holdings stored in a behaviour, all sessions together

Quantities == {0, 1, 2}
PurchasePrices == {0, 3}

(* What get_coin_list gave the rerun: the lower-case name -> id mapping,   *)
(* or {} after a failed fetch. "[sz]" stands for the letter U+00DF.        *)
CoinMapLoaded ==
    Mapping(<<[name |-> "bitcoin", id |-> "bitcoin"],
              [name |-> "ethereum", id |-> "ethereum"],
              [name |-> "[sz]eta", id |-> "sz-eta"]>>)

CoinMaps == {Mapping(<<>>), CoinMapLoaded}

(* str.title() and str.lower() on the names of the model.                  *)
Title(name) ==
    CASE name = "bitcoin" -> "Bitcoin"
      [] name = "ethereum" -> "Ethereum"
      [] name = "[sz]eta" -> "Sseta"

Lower(name) ==
    CASE name = "Bitcoin" -> "bitcoin"
      [] name = "Ethereum" -> "ethereum"
      [] name = "Sseta" -> "sseta"

MapGet_KeyWhenMissing(coin_map, key) ==
    IF \E i \in 1..Len(coin_map.rows) : coin_map.rows[i].name = key
    THEN (CHOOSE r \in {coin_map.rows[i] : i \in 1..Len(coin_map.rows)} : r.name = key).id
    ELSE key

(* coin_map.get(key): "" stands for None.                                  *)
MapGet(coin_map, key) ==
    IF \E i \in 1..Len(coin_map.rows) : coin_map.rows[i].name = key
    THEN (CHOOSE r \in {coin_map.rows[i] : i \in 1..Len(coin_map.rows)} : r.name = key).id
    ELSE ""

all_coin_names_display ==
    {Title(CoinMapLoaded.rows[i].name) : i \in 1..Len(CoinMapLoaded.rows)}

Message(level, about, quantity) == [level |-> level, about |-> about, quantity |-> quantity]

new_holding(coin_id, selected_coin_name, quantity, purchase_price) ==
    [id |-> coin_id, name |-> selected_coin_name, quantity |-> quantity,
     purchase_price |-> IF purchase_price > 0 THEN Num(purchase_price) ELSE Null]

AddHolding_Merge(holdings, h) ==
    IF \E i \in 1..Len(holdings) : holdings[i].id = h.id
    THEN [i \in 1..Len(holdings) |->
            IF holdings[i].id = h.id
            THEN [holdings[i] EXCEPT !.quantity = @ + h.quantity]
            ELSE holdings[i]]
    ELSE Append(holdings, h)

AddHolding_FirstPrice(holdings, h) ==
    IF \E i \in 1..Len(holdings) : holdings[i].id = h.id
    THEN LET first == CHOOSE i \in 1..Len(holdings) :
                          /\ holdings[i].id = h.id
                          /\ \A j \in 1..(i - 1) : holdings[j].id # h.id
         IN Append(holdings, [h EXCEPT !.purchase_price = holdings[first].purchase_price])
    ELSE Append(holdings, h)

(* Line 115: st.session_state.portfolio.append(new_holding).               *)
AddHolding(holdings, h) == Append(holdings, h)

ClearedPortfolio_DropLast(holdings) == SubSeq(holdings, 1, Len(holdings) - 1)

(* Line 236: the list "Clear Portfolio" puts in place of the holdings.     *)
ClearedPortfolio(holdings) == <<>>

SetPortfolio_Global(p, s, holdings) == [t \in DOMAIN p |-> holdings]

(* st.session_state.portfolio of session s becomes holdings (lines 115,    *)
(* 236); st.session_state is one store per browser session.                *)
SetPortfolio(p, s, holdings) == [p EXCEPT ![s] = holdings]

RECURSIVE TotalHoldings(_)
TotalHoldings(S) ==
    IF S = {} THEN 0
    ELSE LET s == CHOOSE x \in S : TRUE
         IN Len(portfolio[s]) + TotalHoldings(S \ {s})

InitPortfolio ==
    /\ portfolio = [s \in Sessions |-> <<>>]
    /\ shown = [s \in Sessions |-> Message("", "", 0)]
    /\ CacheIdle
    /\ DirectIdle

ValidSubmission_ZeroQuantity(selected_coin_name, quantity) ==
    selected_coin_name # "" /\ quantity >= 0

(* Line 103: selected_coin_name and quantity > 0.                          *)
ValidSubmission(selected_coin_name, quantity) ==
    selected_coin_name # "" /\ quantity > 0

(* "Add to Portfolio" pressed with the form's three inputs; coin_map is    *)
(* what the rerun loaded (lines 73-77 stop the script when it is empty).   *)
SubmitAdd(s, coin_map, selected_coin_name, quantity, purchase_price) ==
    LET coin_id == MapGet(coin_map, Lower(selected_coin_name))
    IN /\ TotalHoldings(Sessions) < MaxHoldings
       /\ IF coin_map.rows = <<>>
          THEN /\ shown' = [shown EXCEPT ![s] = Message("error", "coin list", 0)]
               /\ UNCHANGED portfolio
          ELSE IF ValidSubmission(selected_coin_name, quantity)
          THEN IF coin_id # ""
               THEN /\ portfolio' =
                         SetPortfolio(portfolio, s,
                             AddHolding(portfolio[s],
                                        new_holding(coin_id, selected_coin_name, quantity,
                                                    purchase_price)))
                    /\ shown' = [shown EXCEPT ![s] =
                                    Message("success", selected_coin_name, quantity)]
               ELSE /\ shown' = [shown EXCEPT ![s] =
                                    Message("error", selected_coin_name, 0)]
                    /\ UNCHANGED portfolio
          ELSE /\ shown' = [shown EXCEPT ![s] = Message("error", "quantity", 0)]
               /\ UNCHANGED portfolio
       /\ UNCHANGED <<fn, cache, now, netCalls, last, given, got, threads>>

(* "Clear Portfolio" pressed; the button exists only under a non-empty     *)
(* portfolio (lines 127-237).                                              *)
ClearPortfolio(s, coin_map) ==
    /\ portfolio[s] # <<>>
    /\ IF coin_map.rows = <<>>
       THEN /\ shown' = [shown EXCEPT ![s] = Message("error", "coin list", 0)]
            /\ UNCHANGED portfolio
       ELSE /\ portfolio' = SetPortfolio(portfolio, s, ClearedPortfolio(portfolio[s]))
            /\ shown' = [shown EXCEPT ![s] = Message("info", "empty", 0)]
    /\ UNCHANGED <<fn, cache, now, netCalls, last, given, got, threads>>

NextPortfolio ==
    \/ \E s \in Sessions, coin_map \in CoinMaps, name \in all_coin_names_display,
          quantity \in Quantities, purchase_price \in PurchasePrices :
            SubmitAdd(s, coin_map, name, quantity, purchase_price)
    \/ \E s \in Sessions, coin_map \in CoinMaps : ClearPortfolio(s, coin_map)

SpecPortfolio == InitPortfolio /\ [][NextPortfolio]_vars

RemoveAt(holdings, i) ==
    SubSeq(holdings, 1, i - 1) \o SubSeq(holdings, i + 1, Len(holdings))

C20_OtherSessionUnchanged ==
    [][\A s \in Sessions, coin_map \in CoinMaps :
          ( \/ ClearPortfolio(s, coin_map)
            \/ \E name \in all_coin_names_display, quantity \in Quantities,
                  purchase_price \in PurchasePrices :
                    SubmitAdd(s, coin_map, name, quantity, purchase_price) ) =>
              \A t \in Sessions \ {s} : portfolio'[t] = portfolio[t]]_vars

(* Both sessions have added holdings, one of them has cleared its list     *)
(* since, and the other still holds its own.                               *)
C20_Witness ==
    \E s \in Sessions, t \in Sessions :
        /\ s # t
        /\ portfolio[s] = <<>>
        /\ shown[s].about = "empty"
        /\ portfolio[t] # <<>>
        /\ shown[t].level = "success"

(* The coin ids of the coin list the page loaded.                          *)
CoinListIds == {CoinMapLoaded.rows[i].id : i \in 1..Len(CoinMapLoaded.rows)}

(* C25: every holding a session's portfolio stores has a quantity that is  *)
(* not negative and a coin id that the coin list gave for its name.        *)
C25_HoldingsWellFormed ==
    \A s \in Sessions : \A i \in 1..Len(portfolio[s]) :
        /\ portfolio[s][i].quantity >= 0
        /\ portfolio[s][i].id \in CoinListIds
        /\ \E k \in 1..Len(CoinMapLoaded.rows) :
              /\ CoinMapLoaded.rows[k].name = Lower(portfolio[s][i].name)
              /\ CoinMapLoaded.rows[k].id = portfolio[s][i].id

(* A session has added since it cleared its portfolio: a clear came        *)
(* between two adds, and what is stored is one resolved holding.           *)
C25_Witness ==
    \E s \in Sessions, t \in Sessions :
        /\ s # t
        /\ Len(portfolio[s]) = 1
        /\ portfolio[s][1].id = "ethereum"
        /\ portfolio[s][1].quantity = 2
        /\ shown[t] = Message("info", "empty", 0)
        /\ portfolio[t] = <<>>

(* C26: an add-holding submission with quantity 0, or with a coin name     *)
(* the coin list resolves to no id, leaves the session's portfolio as it   *)
(* was and shows an error.                                                 *)
C26_RejectedAddChangesNothing ==
    [][\A s \in Sessions, coin_map \in CoinMaps, name \in all_coin_names_display,
          quantity \in Quantities, purchase_price \in PurchasePrices :
          ( /\ SubmitAdd(s, coin_map, name, quantity, purchase_price)
            /\ \/ quantity = 0
               \/ \A i \in 1..Len(coin_map.rows) :
                     coin_map.rows[i].name # Lower(name) ) =>
              /\ portfolio' = portfolio
              /\ shown'[s].level = "error"]_vars

(* A session that holds one coin was last told that a name has no id:      *)
(* the rejected submission came after the accepted one.                    *)
C26_Witness ==
    \E s \in Sessions :
        /\ Len(portfolio[s]) = 1
        /\ shown[s] = Message("error", "Sseta", 0)

(* C22 as stated, for the portfolio page: a rerun whose coin-list fetch    *)
(* failed still runs the rest of the page, so a "Clear Portfolio" pressed  *)
(* on a session's existing holdings empties them.                          *)
C22_PortfolioModifiableWithoutCoinList ==
    [][\A s \in Sessions, coin_map \in CoinMaps :
          ( /\ coin_map.rows = <<>>
            /\ ClearPortfolio(s, coin_map) ) =>
              portfolio'[s] = ClearedPortfolio(portfolio[s])]_vars

-----------------------------------------------------------------------------
(* SpecTopCoins: one call of utils.get_top_coins on one response.          *)
MaxCoins == 2       \* market rows in a coins/markets payload

(* The integer a page-size argument stands for.                            *)
ToInt(s) ==
    CASE s = "1" -> 1
      [] s = "2" -> 2
      [] s = "25" -> 25
      [] s = "250" -> 250

MarketRows ==
    {[keys |-> TopCoinsRequired, rank |-> r, spark |-> sp] :
        r \in {Num(1), Num(2), Null}, sp \in {"prices", "noprice", "null"}}
    \cup {[keys |-> TopCoinsRequired \ {"sparkline_in_7d"}, rank |-> r, spark |-> "null"] :
            r \in {Num(1), Num(2), Null}}
    \cup {[keys |-> TopCoinsRequired \ {"market_cap_rank"}, rank |-> Null, spark |-> sp] :
            sp \in {"prices", "noprice", "null"}}
    \cup {[keys |-> {"id", "name"}, rank |-> Null, spark |-> "null"]}

TopCoinsArgs == {<<Arg("usd", "str"), Arg(n, "int")>> : n \in {"1", "2"}}

TopCoinsResponses ==
    {[status |-> 200, body |-> [top |-> "list", coins |-> cs]] :
        cs \in SeqsUpTo(MarketRows, MaxCoins)}
    \cup {[status |-> 200, body |-> [top |-> top, coins |-> <<>>]] :
            top \in {"nonjson", "dict", "null"}}
    \cup FailedResponses([top |-> "nonjson", coins |-> <<>>])

InitTopCoins ==
    /\ given \in {[args |-> a, resp |-> r] : a \in TopCoinsArgs, r \in TopCoinsResponses}
    /\ got = Pending
    /\ CacheIdle
    /\ PortfolioIdle

CallTopCoins ==
    /\ got = Pending
    /\ got' = [by |-> "utils", out |-> get_top_coins(given.args, given.resp)]
    /\ UNCHANGED <<fn, cache, now, netCalls, last, given, portfolio, shown, threads>>

NextTopCoins == CallTopCoins

SpecTopCoins == InitTopCoins /\ [][NextTopCoins]_vars

(* C11: for every response, the market snapshot has at most per_page rows  *)
(* and its market_cap_rank column is non-decreasing.                       *)
C11_AtMostPageSizeRanked ==
    got.by # "" =>
        /\ got.out.kind = "return"
        /\ Len(GotRows) <= ToInt(given.args[2].s)
        /\ \A i, j \in 1..Len(GotRows) :
              (i < j /\ GotRows[i].rank.k = "num" /\ GotRows[j].rank.k = "num") =>
                  GotRows[i].rank.n <= GotRows[j].rank.n

(* C12: on a list payload the snapshot has one row per market row, every   *)
(* required column is in it, holding the payload's value where the row has *)
(* the key and a missing marker where it has not; the sparkline price list *)
(* is the payload's when sparkline_in_7d is an object with a price list    *)
(* and None otherwise; nothing is reported as a failure.                   *)
C12_MissingFieldsFilled ==
    (got.by # "" /\ given.resp.status = 200 /\ given.resp.body.top = "list") =>
        LET coins == given.resp.body.coins
        IN /\ got.out.kind = "return"
           /\ got.out.notes = <<>>
           /\ Len(GotRows) = Len(coins)
           /\ \A i \in 1..Len(coins) :
                 /\ \A col \in TopCoinsRequired :
                       /\ col \in DOMAIN GotRows[i].cells
                       /\ GotRows[i].cells[col] = "value" <=> col \in coins[i].keys
                       /\ GotRows[i].cells[col] \in {"value", "NaN", "NA", "None"}
                 /\ GotRows[i].sparkline_7d_prices =
                        IF "sparkline_in_7d" \in coins[i].keys /\ coins[i].spark = "prices"
                        THEN "prices"
                        ELSE "None"

(* A snapshot came back for a payload in which no row has a rank or a      *)
(* sparkline, and another for a sparkline object without a price list.     *)
C12_Witness ==
    /\ got.by # ""
    /\ given.resp.status = 200
    /\ given.resp.body.top = "list"
    /\ Len(GotRows) = 2
    /\ \/ /\ GotRows[1].cells["market_cap_rank"] = "NA"
          /\ GotRows[1].cells["sparkline_in_7d"] = "None"
          /\ GotRows[2].sparkline_7d_prices = "None"
       \/ /\ given.resp.body.coins[1].spark = "noprice"
          /\ GotRows[1].sparkline_7d_prices = "None"
          /\ GotRows[2].cells["sparkline_in_7d"] = "NaN"

-----------------------------------------------------------------------------
(* SpecGlobal: one call of a global-stats fetch on one response. A global  *)
(* body is [top, keys, content]: content is what the "data" key holds.     *)
GlobalContents == {"stats", "partial stats", "empty object", "null"}

GlobalPayloads ==
    {[top |-> "dict", keys |-> keys, content |-> c] :
        keys \in SUBSET {"data", "status", "error"}, c \in GlobalContents}
    \cup {[top |-> top, keys |-> {}, content |-> "null"] :
            top \in {"nonjson", "list", "null", "str", "num"}}

GlobalResponses ==
    Responses200(GlobalPayloads)
        \cup FailedResponses([top |-> "nonjson", keys |-> {}, content |-> "null"])

InitGlobal ==
    /\ given \in {[args |-> <<>>, resp |-> r] : r \in GlobalResponses}
    /\ got = Pending
    /\ CacheIdle
    /\ PortfolioIdle

CallGlobal ==
    /\ got = Pending
    /\ got' = [by |-> "utils", out |-> get_global_market_data(given.args, given.resp)]
    /\ UNCHANGED <<fn, cache, now, netCalls, last, given, portfolio, shown, threads>>

CallGlobalMarketGlobal ==
    /\ got = Pending
    /\ got' = [by |-> "global_market",
               out |-> GlobalMarket_get_global_market_data(given.args, given.resp)]
    /\ UNCHANGED <<fn, cache, now, netCalls, last, given, portfolio, shown, threads>>

NextGlobal == CallGlobal \/ CallGlobalMarketGlobal

SpecGlobal == InitGlobal /\ [][NextGlobal]_vars

(* C13: on a JSON payload the global-stats fetch returns what the payload  *)
(* holds under "data", and when the payload has no "data" key it returns   *)
(* absent, with a notification and without raising.                        *)
C13_UnwrapsOrAbsent ==
    (got.by # "" /\ given.resp.status = 200 /\ given.resp.body.top # "nonjson") =>
        IF given.resp.body.top = "dict" /\ "data" \in given.resp.body.keys
        THEN /\ got.out.kind = "return"
             /\ got.out.val = IF given.resp.body.content = "null" THEN None
                               ELSE Json(given.resp.body.content)
        ELSE /\ got.out.kind = "return"
             /\ got.out.val = None
             /\ got.out.notes # <<>>

-----------------------------------------------------------------------------
(* SpecValuation: one rerun of the portfolio page shows one session's      *)
(* holdings (pages/8 lines 127-163) with the prices of one response; the   *)
(* price cache holds nothing for the ids yet.                              *)

(* portfolio_df['id'].unique().tolist(), line 134: first-appearance order. *)
RECURSIVE UniqueIds(_, _)
UniqueIds(holdings, seen) ==
    IF holdings = <<>> THEN seen
    ELSE UniqueIds(Tail(holdings),
                   IF \E i \in 1..Len(seen) : seen[i] = Head(holdings).id
                   THEN seen ELSE Append(seen, Head(holdings).id))

(* portfolio_df['id'].map(current_prices), line 140: NaN for an id the     *)
(* dict lacks.                                                             *)
MapPrice(current_prices, id) ==
    IF \E i \in 1..Len(current_prices.rows) : current_prices.rows[i].id = id
    THEN (CHOOSE r \in {current_prices.rows[i] : i \in 1..Len(current_prices.rows)} :
              r.id = id).price
    ELSE Null

(* quantity * current_price, line 144: NaN when the price is NaN.          *)
current_value(quantity, current_price) ==
    IF IsNumeric(current_price) THEN Num(quantity * current_price.n) ELSE Null

has_purchase_price_AnyPriced(row) == IsNumeric(row.current_value)

(* Line 148: notna(purchase_price) & notna(current_value) &                *)
(* (purchase_price > 0); a missing purchase price compares False.          *)
has_purchase_price(row) ==
    /\ IsNumeric(row.purchase_price)
    /\ IsNumeric(row.current_value)
    /\ row.purchase_price.n > 0

(* Lines 147-151: None, or (current_price - purchase_price) * quantity     *)
(* under the mask.                                                         *)
pnl(row) ==
    IF has_purchase_price(row)
    THEN Num((row.current_price.n - row.purchase_price.n) * row.quantity)
    ELSE Null

(* Series.sum(): the missing cells are skipped, an empty sum is 0.         *)
RECURSIVE SumColumn(_, _)
SumColumn(rows, col) ==
    IF rows = <<>> THEN 0
    ELSE (IF IsNumeric(Head(rows)[col]) THEN Head(rows)[col].n ELSE 0)
         + SumColumn(Tail(rows), col)

total_value_NaNWhenAnyMissing(rows) ==
    IF \E i \in 1..Len(rows) : ~IsNumeric(rows[i].current_value)
    THEN Null ELSE Num(SumColumn(rows, "current_value"))

(* Line 154: portfolio_df['current_value'].sum().                          *)
total_value(rows) == Num(SumColumn(rows, "current_value"))

(* Line 155: the sum of pnl if any pnl is there, else None.                *)
total_pnl(rows) ==
    IF \E i \in 1..Len(rows) : IsNumeric(rows[i].pnl)
    THEN Num(SumColumn(rows, "pnl")) ELSE Null

(* Lines 131-155: the frame of the holdings with current_price,            *)
(* current_value and pnl, and the two summary metrics.                     *)
portfolio_df(holdings, current_prices) ==
    LET priced == [i \in 1..Len(holdings) |->
                     LET h == holdings[i]
                         cp == ToNumeric(MapPrice(current_prices, h.id))
                     IN [id |-> h.id, name |-> h.name, quantity |-> h.quantity,
                         purchase_price |-> h.purchase_price,
                         current_price |-> cp,
                         current_value |-> current_value(h.quantity, cp)]]
        rows == [i \in 1..Len(priced) |->
                     [id |-> priced[i].id, name |-> priced[i].name,
                      quantity |-> priced[i].quantity,
                      purchase_price |-> priced[i].purchase_price,
                      current_price |-> priced[i].current_price,
                      current_value |-> priced[i].current_value,
                      pnl |-> pnl(priced[i])]]
    IN [level |-> "table", rows |-> rows,
        total_value |-> total_value(rows),
        total_pnl |-> total_pnl(rows)]

NotShown == [level |-> "", rows |-> <<>>, total_value |-> Null, total_pnl |-> Null]

(* Line 128: st.info for an empty portfolio.                               *)
EmptyShown == [level |-> "info", rows |-> <<>>, total_value |-> Null, total_pnl |-> Null]

(* Holdings the add form can have stored: quantity > 0, purchase price     *)
(* above 0 or None.                                                        *)
ValuedHoldings ==
    {[id |-> Lower(name), name |-> name, quantity |-> q, purchase_price |-> pp] :
        name \in {"Bitcoin", "Ethereum"}, q \in Quantities \ {0},
        pp \in {Null, Num(1), Num(3)}}

ValuedPortfolios == SeqsUpTo(ValuedHoldings, MaxHoldings)

ValuationQuotes ==
    {[q |-> "dict", has |-> TRUE, price |-> Num(2)],
     [q |-> "dict", has |-> TRUE, price |-> Str],
     [q |-> "dict", has |-> FALSE, price |-> Null]}

ValuationResponses ==
    {[status |-> 200, body |-> [top |-> "dict", quotes |-> qs]] :
        qs \in UNION {[ids -> ValuationQuotes] : ids \in SUBSET {"bitcoin", "ethereum"}}}
    \cup {[status |-> st, body |-> [top |-> "dict", quotes |-> <<>>]] : st \in {0, 429}}

InitValuation ==
    /\ portfolio \in {[s \in Sessions |-> IF s = "s1" THEN h ELSE <<>>] :
                         h \in ValuedPortfolios}
    /\ shown = [s \in Sessions |-> NotShown]
    /\ given \in {[args |-> <<>>, resp |-> r] : r \in ValuationResponses}
    /\ got = Pending
    /\ CacheIdle

(* The display section of a rerun in session s.                            *)
ShowPortfolio(s) ==
    LET ids == UniqueIds(portfolio[s], <<>>)
        portfolio_coin_ids == IdList([i \in 1..Len(ids) |-> Arg(ids[i], "str")])
        current_prices ==
            Portfolio_get_current_prices(<<portfolio_coin_ids, Arg("usd", "str")>>, given.resp)
    IN /\ shown[s] = NotShown
       /\ shown' = [shown EXCEPT ![s] =
                       IF portfolio[s] = <<>> THEN EmptyShown
                       ELSE portfolio_df(portfolio[s], current_prices.val)]
       /\ UNCHANGED <<fn, cache, now, netCalls, last, given, got, portfolio, threads>>

NextValuation == \E s \in Sessions : ShowPortfolio(s)

SpecValuation == InitValuation /\ [][NextValuation]_vars

(* The sum of value - quantity * purchase price over the rows that have    *)
(* both a current price and a purchase price.                              *)
RECURSIVE AggregatePnl(_)
AggregatePnl(rows) ==
    IF rows = <<>> THEN 0
    ELSE LET r == Head(rows)
         IN (IF IsNumeric(r.current_price) /\ IsNumeric(r.purchase_price)
             THEN r.quantity * r.current_price.n - r.quantity * r.purchase_price.n
             ELSE 0)
            + AggregatePnl(Tail(rows))

(* C18: in a shown table, every holding with a known current price has     *)
(* value quantity * current price; its profit/loss is value - quantity *   *)
(* purchase price when it has a purchase price and undefined otherwise;    *)
(* the aggregate profit/loss is the sum over the holdings with both        *)
(* prices, and undefined when there is none.                               *)
C18_ValueAndProfitLoss ==
    \A s \in Sessions :
        shown[s].level = "table" =>
            /\ Len(shown[s].rows) = Len(portfolio[s])
            /\ \A i \in 1..Len(shown[s].rows) :
                  LET r == shown[s].rows[i]
                      h == portfolio[s][i]
                  IN /\ r.quantity = h.quantity
                     /\ r.purchase_price = h.purchase_price
                     /\ IsNumeric(r.current_price) =>
                           /\ r.current_value = Num(h.quantity * r.current_price.n)
                           /\ r.pnl = IF h.purchase_price = Null THEN Null
                                      ELSE Num(r.current_value.n
                                               - h.quantity * h.purchase_price.n)
            /\ shown[s].total_pnl =
                  IF \E i \in 1..Len(shown[s].rows) :
                        /\ IsNumeric(shown[s].rows[i].current_price)
                        /\ IsNumeric(shown[s].rows[i].purchase_price)
                  THEN Num(AggregatePnl(shown[s].rows))
                  ELSE Null

(* Two priced holdings are shown, one bought at 3 with a loss of 1 a       *)
(* unit, one without a purchase price: the aggregate is the loss of the    *)
(* first alone.                                                            *)
C18_Witness ==
    \E s \in Sessions :
        /\ shown[s].level = "table"
        /\ Len(shown[s].rows) = 2
        /\ shown[s].rows[1].purchase_price = Num(3)
        /\ shown[s].rows[1].quantity = 2
        /\ shown[s].rows[1].current_value = Num(4)
        /\ shown[s].rows[1].pnl = Num(0 - 2)
        /\ shown[s].rows[2].purchase_price = Null
        /\ shown[s].rows[2].current_value = Num(2)
        /\ shown[s].rows[2].pnl = Null
        /\ shown[s].total_pnl = Num(0 - 2)

(* The sum of quantity * current price over the holdings whose current     *)
(* price is known.                                                         *)
RECURSIVE AggregateValue(_, _)
AggregateValue(holdings, rows) ==
    IF holdings = <<>> THEN 0
    ELSE (IF IsNumeric(Head(rows).current_price)
          THEN Head(holdings).quantity * Head(rows).current_price.n
          ELSE 0)
         + AggregateValue(Tail(holdings), Tail(rows))

(* C29: in a shown table the total value is the sum of quantity * current  *)
(* price over exactly the holdings with a known current price, 0 when      *)
(* there is none; the total profit/loss is undefined exactly when no       *)
(* holding has both a known current price and a purchase price above 0.    *)
C29_Totals ==
    \A s \in Sessions :
        shown[s].level = "table" =>
            /\ Len(shown[s].rows) = Len(portfolio[s])
            /\ shown[s].total_value = Num(AggregateValue(portfolio[s], shown[s].rows))
            /\ (shown[s].total_pnl = Null) <=>
                  ~ \E i \in 1..Len(shown[s].rows) :
                        /\ IsNumeric(shown[s].rows[i].current_price)
                        /\ IsNumeric(portfolio[s][i].purchase_price)
                        /\ portfolio[s][i].purchase_price.n > 0

(* Two holdings are shown: one priced and without a purchase price, one    *)
(* bought at 1 whose price is not known. The total value is that of the    *)
(* first alone and the total profit/loss is undefined.                     *)
C29_Witness ==
    \E s \in Sessions :
        /\ shown[s].level = "table"
        /\ Len(shown[s].rows) = 2
        /\ shown[s].rows[1].current_value = Num(4)
        /\ shown[s].rows[1].purchase_price = Null
        /\ shown[s].rows[2].current_price = Null
        /\ shown[s].rows[2].purchase_price = Num(1)
        /\ shown[s].total_value = Num(4)
        /\ shown[s].total_pnl = Null

-----------------------------------------------------------------------------
(* SpecPages: the historical-data fetch as the pages call it. The          *)
(* Dashboard calls utils.get_historical_data with days as an integer, the  *)
(* Coin Detail page calls its own decorated copy with days as a string.    *)
(* Every session runs its page script in a thread of its own; a cached     *)
(* call reads the store, and on a miss takes the key's compute lock,       *)
(* reads again, runs the body and writes the result.                       *)
MaxPageTicks == 1   \* clock steps of a whole TTL

PageFunctions == {"utils.get_historical_data", "CoinDetail.get_historical_data"}

PageTTL(f) == 7200

RunPage(f, args, resp) ==
    CASE f = "utils.get_historical_data" -> get_historical_data(args, resp)
      [] f = "CoinDetail.get_historical_data" -> CoinDetail_get_historical_data(args, resp)

(* The days argument as the call sites write it: days_history, or          *)
(* str(days_history).                                                      *)
PageArgs(ty) == <<Arg("bitcoin", "str"), Arg("usd", "str"), Arg("30", ty)>>

PageCalls ==
    {[f |-> "utils.get_historical_data", args |-> PageArgs(ty)] : ty \in {"int", "str"}}
    \cup {[f |-> "CoinDetail.get_historical_data", args |-> PageArgs("str")]}

PageResponses ==
    Responses200({MarketChart({"prices", "total_volumes"}, <<[ts |-> 1, v |-> Num(1)]>>,
                              <<[ts |-> 1, v |-> Num(5)]>>),
                  MarketChart({"prices", "total_volumes"}, <<[ts |-> 2, v |-> Num(2)]>>,
                              <<[ts |-> 2, v |-> Num(5)]>>)})
    \cup Responses200({b \in OddMarketCharts : b.top = "list"})

PageKey_ArgsOnly(f, s, args) == <<"", Key(s, args)>>

(* The store is per decorated function; within it the key is that of the   *)
(* argument tuple.                                                         *)
PageKey(f, s, args) == <<f, Key(s, args)>>

IdleThread == [pc |-> "idle", f |-> "", args |-> <<>>, resp |-> NoResponse, out |-> Pending.out]

NoCompletion ==
    [by |-> "", f |-> "", args |-> <<>>, hit |-> FALSE, net |-> 0,
     resp |-> NoResponse, out |-> Pending.out]

Completion(s, f, args, hit, resp, out) ==
    [by |-> s, f |-> f, args |-> args, hit |-> hit,
     net |-> IF hit THEN 0 ELSE 1, resp |-> resp, out |-> out]

(* The key thread s is at, and whether a fresh entry is stored under it.   *)
ThreadKey(s) == PageKey(threads[s].f, s, threads[s].args)

HasFresh(k, f) == k \in DOMAIN cache /\ Fresh(cache[k], now, PageTTL(f))

InitPages ==
    /\ fn = ""
    /\ cache = <<>>
    /\ now = 0
    /\ netCalls = 0
    /\ last = NoCompletion
    /\ threads = [s \in Sessions |-> IdleThread]
    /\ DirectIdle
    /\ PortfolioIdle

(* The page of session s calls c.f(c.args): a fresh entry is given back    *)
(* at once, otherwise the thread goes for the compute lock.                *)
BeginCall(s, c) ==
    LET k == PageKey(c.f, s, c.args)
    IN /\ threads[s].pc = "idle"
       /\ IF HasFresh(k, c.f)
          THEN /\ last' = Completion(s, c.f, c.args, TRUE, NoResponse, cache[k].out)
               /\ UNCHANGED threads
          ELSE /\ threads' = [threads EXCEPT ![s] =
                                 [IdleThread EXCEPT !.pc = "miss", !.f = c.f, !.args = c.args]]
               /\ UNCHANGED last
       /\ UNCHANGED <<fn, cache, now, netCalls, given, got, portfolio, shown>>

(* Thread s takes the lock of its key when no other thread holds it, and   *)
(* reads the store again: another thread may have written meanwhile.       *)
AcquireLock(s) ==
    /\ threads[s].pc = "miss"
    /\ \A t \in Sessions \ {s} :
          threads[t].pc \in {"compute", "computed"} => ThreadKey(t) # ThreadKey(s)
    /\ IF HasFresh(ThreadKey(s), threads[s].f)
       THEN /\ last' = Completion(s, threads[s].f, threads[s].args, TRUE, NoResponse,
                                  cache[ThreadKey(s)].out)
            /\ threads' = [threads EXCEPT ![s] = IdleThread]
       ELSE /\ threads' = [threads EXCEPT ![s].pc = "compute"]
            /\ UNCHANGED last
    /\ UNCHANGED <<fn, cache, now, netCalls, given, got, portfolio, shown>>

(* The body runs: one requests.get, answered with resp.                    *)
RunBody(s, resp) ==
    /\ threads[s].pc = "compute"
    /\ netCalls < MaxFetches
    /\ netCalls' = netCalls + 1
    /\ threads' = [threads EXCEPT ![s].pc = "computed", ![s].resp = resp,
                                  ![s].out = RunPage(threads[s].f, threads[s].args, resp)]
    /\ UNCHANGED <<fn, cache, now, last, given, got, portfolio, shown>>

(* The returned value is written under the key and given to the page; an   *)
(* exception is raised to the page and nothing is written. The lock is     *)
(* released.                                                               *)
FinishCall(s) ==
    LET t == threads[s]
        k == ThreadKey(s)
    IN /\ t.pc = "computed"
       /\ cache' = IF t.out.kind = "return"
                   THEN Store(cache, k, [f |-> t.f, args |-> t.args, by |-> s,
                                         stored |-> now, out |-> t.out, resp |-> t.resp])
                   ELSE Evict(cache, k)
       /\ last' = Completion(s, t.f, t.args, FALSE, t.resp, t.out)
       /\ threads' = [threads EXCEPT ![s] = IdleThread]
       /\ UNCHANGED <<fn, now, netCalls, given, got, portfolio, shown>>

TickPages ==
    /\ now < MaxPageTicks * PageTTL("")
    /\ now' = now + PageTTL("")
    /\ UNCHANGED <<fn, cache, netCalls, last, given, got, portfolio, shown, threads>>

NextPages ==
    \/ \E s \in Sessions, c \in PageCalls : BeginCall(s, c)
    \/ \E s \in Sessions : AcquireLock(s)
    \/ \E s \in Sessions, resp \in PageResponses : RunBody(s, resp)
    \/ \E s \in Sessions : FinishCall(s)
    \/ TickPages

SpecPages == InitPages /\ [][NextPages]_vars

(* A call completed in this step.                                          *)
Completed == last' # last

(* The entries stored for function f and the argument tuple args, types    *)
(* included.                                                               *)
EntriesOf(f, args) == {k \in DOMAIN cache : cache[k].f = f /\ cache[k].args = args}

(* C21: however the steps of two sessions' calls interleave, every stored  *)
(* entry is the whole outcome of one finished run of its function on the   *)
(* response that run received, and every value a call gives back is        *)
(* either such an entry of the same function and arguments or the outcome  *)
(* of the call's own finished run.                                         *)
C21_NeverCorrupted ==
    /\ [](\A k \in DOMAIN cache :
             /\ cache[k].resp \in PageResponses
             /\ cache[k].out.kind = "return"
             /\ cache[k].out = RunPage(cache[k].f, cache[k].args, cache[k].resp))
    /\ [][Completed =>
             IF last'.hit
             THEN \E k \in EntriesOf(last'.f, last'.args) : last'.out = cache[k].out
             ELSE /\ last'.resp \in PageResponses
                  /\ last'.out = RunPage(last'.f, last'.args, last'.resp)]_vars

(* An entry stored at time 0 has expired; one session has run the body to  *)
(* refresh it and has not written yet, while the other session, which was  *)
(* served the old entry before, has called again and waits for the lock.   *)
C21_Witness ==
    \E s \in Sessions, t \in Sessions :
        /\ s # t
        /\ threads[s].pc = "computed"
        /\ threads[t].pc = "miss"
        /\ threads[s].f = threads[t].f
        /\ threads[s].args = threads[t].args
        /\ \E k \in EntriesOf(threads[s].f, threads[s].args) :
              /\ now - cache[k].stored >= PageTTL(threads[s].f)
              /\ threads[s].out.kind = "return"
              /\ threads[s].out # cache[k].out
              /\ last.hit /\ last.by = t /\ last.out = cache[k].out
              /\ last.f = threads[t].f /\ last.args = threads[t].args

(* C27: a call is served from the store only when an entry of the same     *)
(* decorated function and the same argument tuple, types included, is      *)
(* there; an entry of another copy of the function, or of days in another  *)
(* representation, does not serve it, and the call makes its own request.  *)
C27_OwnEntryOwnRequest ==
    [][Completed =>
          /\ last'.hit =>
                \E k \in EntriesOf(last'.f, last'.args) :
                    now - cache[k].stored < PageTTL(last'.f)
          /\ ~last'.hit => last'.net = 1
          /\ (\A k \in DOMAIN cache : cache[k].f # last'.f \/ cache[k].args # last'.args)
                => ~last'.hit /\ last'.net = 1]_vars

(* The same coin, currency and day range was asked through utils with      *)
(* days as an integer and through the Coin Detail copy with days as a      *)
(* string, at the same time: two entries, two requests.                    *)
C27_Witness ==
    /\ netCalls = 2
    /\ now = 0
    /\ ~last.hit
    /\ last.net = 1
    /\ \E k1 \in EntriesOf("utils.get_historical_data", PageArgs("int")) :
       \E k2 \in EntriesOf("CoinDetail.get_historical_data", PageArgs("str")) :
          /\ k1 # k2
          /\ cache[k1].stored = 0
          /\ cache[k2].stored = 0

-----------------------------------------------------------------------------
(* SpecAnalysis: the main content of the Forecasting page (pages/6 lines   *)
(* 122-260) and of the Time Series Analysis page (pages/4 lines 136-318)   *)
(* on one historical frame. A frame is its columns, its number of rows     *)
(* and the whole days between its first and last date; a routine that      *)
(* runs is recorded with the number of points it is given.                 *)
MinForecastRows == 30       \* pages/6 line 130: len(hist_df_orig) > 30
min_decomp_len == 14        \* pages/4 line 145
MinAcfPoints == 20          \* pages/4 line 280
rolling_window == 30        \* pages/4 line 221
DecompPeriod == 7           \* pages/4 line 239
MaxLags == 40               \* pages/4 line 283, pages/6 lines 244-245

Ran(routine, points, window) == [routine |-> routine, points |-> points, window |-> window]

Min(a, b) == IF a < b THEN a ELSE b

(* pages/6 lines 130-258.                                                  *)
Forecasting(hist) ==
    LET df_prophet == hist.len
        \* set_index('date').asfreq('D').ffill().dropna(): one row a day
        \* from the first date to the last
        df_arima == hist.span + 1
        \* pct_change().dropna()
        daily_returns == df_arima - 1
    IN IF hist.len > 0 /\ "price" \in hist.cols /\ hist.len > MinForecastRows
       THEN [by |-> "forecasting",
             ran |-> {Ran("Prophet", df_prophet, 0), Ran("adfuller", df_arima, 0),
                      Ran("ARIMA", df_arima, 0)}
                     \cup (IF daily_returns > 0
                           THEN {Ran("plot_acf", daily_returns, MaxLags),
                                 Ran("plot_pacf", daily_returns, MaxLags)}
                           ELSE {}),
             said |-> IF daily_returns > 0 THEN {} ELSE {"returns"}]
       ELSE [by |-> "forecasting", ran |-> {},
             said |-> {IF hist.len > 0 /\ hist.len <= MinForecastRows THEN "more data"
                       ELSE IF hist.len > 0 THEN "price column" ELSE "no data"}]

(* pages/4 lines 141-318.                                                  *)
TimeSeries(inputs) ==
    LET hist == inputs.hist
        sma_short_window == inputs.sma_short_window
        sma_long_window == inputs.sma_long_window
        ma_type == inputs.ma_type
        acf_pacf_target == inputs.acf_pacf_target
        \* run_adf_test(hist_df['price']): p-value <= 0.05
        is_stationary_price == inputs.is_stationary_price
        n == hist.len
        can_decompose == n >= min_decomp_len
        windows_fit == sma_short_window < n /\ sma_long_window < n
        returns == n - 1
        target_series == IF acf_pacf_target = "Daily Returns" THEN returns
                         ELSE IF is_stationary_price THEN n ELSE n - 1
        max_lags == Min(MaxLags, target_series \div 2 - 1)
        autocorrelated == target_series >= MinAcfPoints /\ max_lags >= 1
    IN IF n = 0
       THEN [by |-> "time series", ran |-> {}, said |-> {"no data"}]
       ELSE [by |-> "time series",
             ran |-> (IF windows_fit
                      THEN {Ran(ma_type, n, sma_short_window), Ran(ma_type, n, sma_long_window)}
                      ELSE {})
                     \cup (IF n > rolling_window
                           THEN {Ran("rolling.std", n, rolling_window)} ELSE {})
                     \cup (IF can_decompose
                           THEN {Ran("seasonal_decompose", n, DecompPeriod)} ELSE {})
                     \cup (IF acf_pacf_target = "Price"
                           THEN {Ran("adfuller", n, 0)} ELSE {})
                     \cup (IF autocorrelated
                           THEN {Ran("plot_acf", target_series, max_lags),
                                 Ran("plot_pacf", target_series, max_lags)}
                           ELSE {}),
             said |-> (IF windows_fit THEN {} ELSE {"window"})
                      \cup (IF n > rolling_window THEN {} ELSE {"volatility"})
                      \cup (IF can_decompose THEN {} ELSE {"decomposition"})
                      \cup (IF autocorrelated THEN {} ELSE {"autocorrelation"})]

(* Frames a historical fetch can return: no row, or rows of distinct dates *)
(* that span any number of days (hourly points of two days, daily points   *)
(* of a year).                                                             *)
AnalysisFrames ==
    {[cols |-> {"date", "price", "volume"}, len |-> n, span |-> d] :
        n \in {0, 1, 13, 14, 20, 21, 30, 31, 48}, d \in {0, 1, 19, 20, 45}}

AnalysisInputs ==
    {[hist |-> h, sma_short_window |-> short, sma_long_window |-> long, ma_type |-> ma,
      acf_pacf_target |-> target, is_stationary_price |-> st] :
        h \in {f \in AnalysisFrames : f.len <= 1 => f.span = 0},
        short \in {1, 7, 50}, long \in {10, 30, 200}, ma \in {"SMA", "EMA"},
        target \in {"Daily Returns", "Price"}, st \in BOOLEAN}

NotRendered == [by |-> "", ran |-> {}, said |-> {}]

InitAnalysis ==
    /\ given \in AnalysisInputs
    /\ got = NotRendered
    /\ CacheIdle
    /\ PortfolioIdle

ShowForecasting ==
    /\ got = NotRendered
    /\ got' = Forecasting(given.hist)
    /\ UNCHANGED <<fn, cache, now, netCalls, last, given, portfolio, shown, threads>>

ShowTimeSeries ==
    /\ got = NotRendered
    /\ got' = TimeSeries(given)
    /\ UNCHANGED <<fn, cache, now, netCalls, last, given, portfolio, shown, threads>>

NextAnalysis == ShowForecasting \/ ShowTimeSeries

SpecAnalysis == InitAnalysis /\ [][NextAnalysis]_vars

(* The routines of the page render that have the given names.              *)
RanAny(names) == {r \in got.ran : r.routine \in names}

(* C24: a page fits Prophet or ARIMA only on a frame of more than 30 rows  *)
(* with a price column, decomposes only 14 points or more, plots ACF or    *)
(* PACF only of 20 points or more, and computes moving averages only with  *)
(* both windows below the number of rows; where one of these is left out   *)
(* the page shows a message.                                               *)
C24_PreconditionsChecked ==
    got.by # "" =>
        /\ RanAny({"Prophet", "ARIMA"}) # {} =>
              given.hist.len > 30 /\ "price" \in given.hist.cols
        /\ \A r \in RanAny({"seasonal_decompose"}) : r.points >= 14
        /\ \A r \in RanAny({"plot_acf", "plot_pacf"}) : r.points >= 20
        /\ RanAny({"SMA", "EMA"}) # {} =>
              /\ given.sma_short_window < given.hist.len
              /\ given.sma_long_window < given.hist.len
        /\ got.by = "forecasting" /\ RanAny({"Prophet", "ARIMA"}) = {} => got.said # {}
        /\ got.by = "time series" /\ RanAny({"seasonal_decompose"}) = {} => got.said # {}
        /\ RanAny({"plot_acf", "plot_pacf"}) = {} => got.said # {}
        /\ got.by = "time series" /\ RanAny({"SMA", "EMA"}) = {} => got.said # {}

====
